---- MODULE Spec2Model ----
(***************************************************************************)
(* The PDF filler of dunjil/tulz: PDFFillerService (fill_pdf, its          *)
(* normalizer, the hybrid and the fitz pass, the per-annotation renderer,  *)
(* render_page_to_image) and the /fill endpoint that calls it.             *)
(*                                                                         *)
(* JSON values.  A number is [t |-> "num", n, d], the fraction n/d in      *)
(* lowest terms with d > 0 (Python's 2 == 2.0 is equality of the           *)
(* fraction; floating-point rounding is not modelled).  A string that the  *)
(* code slices is [t |-> "str", s], s the sequence of its characters.      *)
(* null is [t |-> "null"].  A JSON object (an annotation, a path, a        *)
(* point) is a record of its keys; it has no key "t".  The keys "type"     *)
(* and "data" hold plain values: the type tag as a TLA+ string, the        *)
(* payload as the sequence of its comma-separated parts.                   *)
(***************************************************************************)
EXTENDS Integers, Sequences, FiniteSets, TLC

VARIABLES
    pdf_pages,              \* len(doc) of the document the input bytes hold
    body_kind,              \* what the "annotations" form field parses to
    annotations,            \* annotations_list, the caller's list
    canvas_scale,           \* the scale fill_pdf is called with
    pc,                     \* position in the request
    normalized_annotations, \* what _normalize_annotations returned
    pass,                   \* "none", "hybrid" (primary) or "fitz" (fallback)
    pass_annotations,       \* the annotations argument of the running pass
    docs,                   \* every handle fitz.open returned in this request
    annotations_by_page,    \* the running pass's dict, in insertion order
    page_idx,               \* the running pass's position in its page loop
    ann_pos,                \* position in the current page's list
    trace,                  \* history: what the passes did, in order
    result,                 \* what the service call returned or raised
    output_file,            \* what the endpoint wrote to TEMP_DIR
    page_number,            \* render_page_to_image: the page asked for
    zoom,                   \* render_page_to_image: the scale asked for
    form_canvas_scale,      \* the "canvas_scale" form field of the request
    requests,               \* the requests the event loop serves, by id
    handles,                \* every handle fitz.open returned to them
    loop                    \* the request running on the event loop, or 0

vars == <<pdf_pages, body_kind, annotations, canvas_scale, pc,
          normalized_annotations, pass, pass_annotations, docs,
          annotations_by_page, page_idx, ann_pos, trace, result,
          output_file, page_number, zoom,
                   form_canvas_scale, requests, handles, loop>>

-----------------------------------------------------------------------------
(* Bounds of the model *)

MaxPages == 2

MaxAnns == 2

-----------------------------------------------------------------------------
(* JSON values *)

Null == [t |-> "null"]

RECURSIVE Gcd(_, _)
Gcd(a, b) == IF b = 0 THEN a ELSE Gcd(b, a % b)

Abs(a) == IF a < 0 THEN -a ELSE a

Min(a, b) == IF a < b THEN a ELSE b

\* the fraction n/d (d # 0) in lowest terms, denominator positive
Frac(n, d) ==
    LET g == Gcd(Abs(n), Abs(d))
        s == IF d < 0 THEN -1 ELSE 1
    IN  [t |-> "num", n |-> (s * n) \div g, d |-> (s * d) \div g]

Num(n) == Frac(n, 1)

Str(s) == [t |-> "str", s |-> s]

IsNum(v) == "t" \in DOMAIN v /\ v.t = "num"

IsStr(v) == "t" \in DOMAIN v /\ v.t = "str"

\* a dict: the only JSON value with .get and keys
IsObject(v) == "t" \notin DOMAIN v

\* dict.get(k, default)
Get(obj, k, default) == IF k \in DOMAIN obj THEN obj[k] ELSE default

\* obj with obj[k] = v (k a key of obj)
Put(obj, k, v) == [f \in DOMAIN obj |-> IF f = k THEN v ELSE obj[f]]

\* a / b of two numbers, b # 0
Div(a, b) == Frac(a.n * b.d, a.d * b.n)

Add(a, b) == Frac(a.n * b.d + b.n * a.d, a.d * b.d)

Less(a, b) == a.n * b.d < b.n * a.d

IsInteger(v) == IsNum(v) /\ v.d = 1

-----------------------------------------------------------------------------
(* Colour parsing: int(color_hex[1:3], 16) / 255 and the two like it *)

HexDigits == <<"0", "1", "2", "3", "4", "5", "6", "7", "8", "9",
               "a", "b", "c", "d", "e", "f">>

UpperHexDigits == <<"0", "1", "2", "3", "4", "5", "6", "7", "8", "9",
                    "A", "B", "C", "D", "E", "F">>

IsHexDigit(c) ==
    \E i \in 1..Len(HexDigits) : HexDigits[i] = c \/ UpperHexDigits[i] = c

HexValue(c) ==
    (CHOOSE i \in 1..Len(HexDigits) : HexDigits[i] = c \/ UpperHexDigits[i] = c) - 1

\* s[a:b] of a string: the characters at 0-based positions a .. b-1 that exist
Slice(s, a, b) == SubSeq(s, a + 1, Min(b, Len(s)))

\* int(s, 16) of a string of at most two characters: [ok, v]; ok = FALSE is
\* ValueError.  int() strips surrounding whitespace and takes one sign.
HexInt(s) ==
    IF Len(s) = 1 /\ IsHexDigit(s[1])
        THEN [ok |-> TRUE, v |-> HexValue(s[1])]
    ELSE IF Len(s) = 2 /\ IsHexDigit(s[1]) /\ IsHexDigit(s[2])
        THEN [ok |-> TRUE, v |-> 16 * HexValue(s[1]) + HexValue(s[2])]
    ELSE IF Len(s) = 2 /\ s[1] \in {"+", " "} /\ IsHexDigit(s[2])
        THEN [ok |-> TRUE, v |-> HexValue(s[2])]
    ELSE IF Len(s) = 2 /\ s[1] = "-" /\ IsHexDigit(s[2])
        THEN [ok |-> TRUE, v |-> 0 - HexValue(s[2])]
    ELSE IF Len(s) = 2 /\ IsHexDigit(s[1]) /\ s[2] = " "
        THEN [ok |-> TRUE, v |-> HexValue(s[1])]
    ELSE [ok |-> FALSE, v |-> 0]

\* The try/except (ValueError, IndexError) around the three conversions.
\* A component is <<numerator, denominator>>.  Slicing a value that is not
\* a string (None, a number) raises TypeError, which the except clause does
\* not name: raised = TRUE.
ParseColor(color_hex, default) ==
    IF ~IsStr(color_hex) THEN [raised |-> TRUE, rgb |-> default]
    ELSE LET r == HexInt(Slice(color_hex.s, 1, 3))
             g == HexInt(Slice(color_hex.s, 3, 5))
             b == HexInt(Slice(color_hex.s, 5, 7))
         IN  IF r.ok /\ g.ok /\ b.ok
                 THEN [raised |-> FALSE,
                       rgb |-> <<(<<r.v, 255>>), (<<g.v, 255>>), (<<b.v, 255>>)>>]
                 ELSE [raised |-> FALSE, rgb |-> default]

-----------------------------------------------------------------------------
(* _normalize_annotations *)

LengthKeys == {"x", "y", "width", "height", "fontSize", "strokeWidth",
               "x1", "y1", "x2", "y2"}

\* a normalizer that leaves the y of a point as it was
ScalePointKeepsY(point, s) == [x |-> Div(point.x, s), y |-> point.y]

\* {"x": point["x"] / canvas_scale, "y": point["y"] / canvas_scale}
ScalePoint(point, s) == [x |-> Div(point.x, s), y |-> Div(point.y, s)]

\* KeyError (no "x" or "y"), TypeError (not a number), ZeroDivisionError
PointRaises(point, s) ==
    \/ ~IsObject(point)
    \/ "x" \notin DOMAIN point
    \/ "y" \notin DOMAIN point
    \/ ~IsNum(point.x)
    \/ ~IsNum(point.y)
    \/ s.n = 0

\* path.copy() with "points" replaced by the scaled points
ScalePath(path, s) ==
    IF "points" \in DOMAIN path
        THEN Put(path, "points",
                 [i \in 1..Len(path.points) |-> ScalePoint(path.points[i], s)])
        ELSE path

PathRaises(path, s) ==
    \/ ~IsObject(path)
    \/ /\ "points" \in DOMAIN path
       /\ \E i \in 1..Len(path.points) : PointRaises(path.points[i], s)

\* whether the loop body raises for this element: ann.copy() on a value
\* that is no dict, a length field that is no number, a zero scale
AnnRaises(ann, s) ==
    \/ ~IsObject(ann)
    \/ \E k \in LengthKeys \cap DOMAIN ann : ~IsNum(ann[k]) \/ s.n = 0
    \/ /\ "paths" \in DOMAIN ann
       /\ \E i \in 1..Len(ann.paths) : PathRaises(ann.paths[i], s)

\* a normalizer that divides every number of the annotation
ScaleAnnEveryNumber(ann, s) ==
    [k \in DOMAIN ann |->
        IF k \in LengthKeys \cup {"page", "rotation", "opacity"}
            THEN Div(ann[k], s)
        ELSE IF k = "paths"
            THEN [i \in 1..Len(ann.paths) |-> ScalePath(ann.paths[i], s)]
        ELSE ann[k]]

\* new_ann after the loop body
ScaleAnn(ann, s) ==
    [k \in DOMAIN ann |->
        IF k \in LengthKeys THEN Div(ann[k], s)
        ELSE IF k = "paths"
            THEN [i \in 1..Len(ann.paths) |-> ScalePath(ann.paths[i], s)]
        ELSE ann[k]]

\* [raised, value]: value is the list returned when nothing raised
NormalizeNoFastPath(anns, s) ==
    IF \E i \in 1..Len(anns) : AnnRaises(anns[i], s)
        THEN [raised |-> TRUE, value |-> <<>>]
        ELSE [raised |-> FALSE,
              value |-> [i \in 1..Len(anns) |-> ScaleAnn(anns[i], s)]]

Normalize(anns, s) ==
    IF s = Num(1) THEN [raised |-> FALSE, value |-> anns]
    ELSE IF \E i \in 1..Len(anns) : AnnRaises(anns[i], s)
        THEN [raised |-> TRUE, value |-> <<>>]
        ELSE [raised |-> FALSE,
              value |-> [i \in 1..Len(anns) |-> ScaleAnn(anns[i], s)]]

-----------------------------------------------------------------------------
(* _draw_annotation_fitz.  A call returns [raised, marks]: whether it      *)
(* raised, and the marks it put on the page, in drawing order.             *)

Black == <<(<<0, 1>>), (<<0, 1>>), (<<0, 1>>)>>

Yellow == <<(<<1, 1>>), (<<1, 1>>), (<<0, 1>>)>>

StampGreen == <<(<<0, 1>>), (<<1, 2>>), (<<0, 1>>)>>

WatermarkGrey == <<(<<2, 5>>), (<<2, 5>>), (<<2, 5>>)>>

HexBlack == Str(<<"#", "0", "0", "0", "0", "0", "0">>)

HexYellow == Str(<<"#", "F", "F", "F", "F", "0", "0">>)

HexGreen == Str(<<"#", "1", "6", "a", "3", "4", "a">>)

HexGrey == Str(<<"#", "6", "b", "7", "2", "8", "0">>)

Drew(marks) == [raised |-> FALSE, marks |-> marks]

Raised == [raised |-> TRUE, marks |-> <<>>]

\* x, y, width, height as read at the top of the renderer
BoxOf(ann) ==
    [x |-> Get(ann, "x", Num(0)), y |-> Get(ann, "y", Num(0)),
     width |-> Get(ann, "width", Num(100)),
     height |-> Get(ann, "height", Num(20))]

\* fitz.Point, fitz.Rect and the arithmetic on the box need numbers
BoxIsNumeric(ann) ==
    LET b == BoxOf(ann)
    IN  IsNum(b.x) /\ IsNum(b.y) /\ IsNum(b.width) /\ IsNum(b.height)

\* Python truth value of a JSON value held in a colour field
Falsy(v) ==
    \/ v = Null
    \/ IsStr(v) /\ v.s = <<>>
    \/ IsNum(v) /\ v.n = 0

\* A payload is the sequence of its comma-separated parts; "" is <<>>.
\* data.split(",")[1] when "," in data, else data
Base64Part(parts) == IF Len(parts) > 1 THEN parts[2] ELSE parts[1]

\* base64.b64decode and the image decoder succeed on the part
Decodes(part) == part = "png"

DrawText(ann) ==
    LET c == ParseColor(Get(ann, "color", HexBlack), Black)
        font_size == Get(ann, "fontSize", Num(12))
        b == BoxOf(ann)
    IN  IF c.raised THEN Raised
        ELSE IF ~(IsNum(b.x) /\ IsNum(b.y) /\ IsNum(font_size)) THEN Raised
        ELSE Drew(<<[kind |-> "text", rgb |-> c.rgb,
                     at |-> <<b.x, Add(b.y, font_size)>>]>>)

\* the try block of a payload: the mark, or nothing when any statement of
\* it raised (except Exception: pass)
TryInsertImage(ann, parts, kind) ==
    IF Decodes(Base64Part(parts)) /\ BoxIsNumeric(ann)
        THEN <<[kind |-> kind]>>
        ELSE <<>>

DrawSignatureOrImageUncaught(ann) ==
    LET data == Get(ann, "data", <<>>)
    IN  IF data = <<>> THEN Drew(<<>>)
        ELSE IF Decodes(Base64Part(data)) /\ BoxIsNumeric(ann)
            THEN Drew(<<[kind |-> "image"]>>)
            ELSE Raised

DrawSignatureOrImage(ann) ==
    LET data == Get(ann, "data", <<>>)
    IN  IF data = <<>> THEN Drew(<<>>)
        ELSE Drew(TryInsertImage(ann, data, "image"))

\* every point of every path with at least two points becomes a fitz.Point
PathsAreNumeric(paths) ==
    \A i \in 1..Len(paths) :
        LET points == Get(paths[i], "points", <<>>)
        IN  Len(points) >= 2 =>
                \A j \in 1..Len(points) :
                    /\ IsNum(Get(points[j], "x", Num(0)))
                    /\ IsNum(Get(points[j], "y", Num(0)))

\* one stroke per sub-path of at least two points
StrokedPaths(paths) ==
    SelectSeq(paths, LAMBDA path : Len(Get(path, "points", <<>>)) >= 2)

DrawDrawing(ann) ==
    LET c == ParseColor(Get(ann, "color", HexBlack), Black)
        paths == Get(ann, "paths", <<>>)
    IN  IF c.raised THEN Raised
        ELSE IF ~PathsAreNumeric(paths) THEN Raised
        ELSE IF ~IsNum(Get(ann, "strokeWidth", Num(2))) THEN Raised
        ELSE Drew(<<[kind |-> "drawing", rgb |-> c.rgb,
                     strokes |-> Len(StrokedPaths(paths))]>>)

DrawCheckbox(ann) ==
    IF ~BoxIsNumeric(ann) THEN Raised
    ELSE Drew(<<[kind |-> "checkbox", rgb |-> Black,
                 checked |-> Get(ann, "checked", FALSE)]>>)

DrawHighlight(ann) ==
    LET c == ParseColor(Get(ann, "color", HexYellow), Yellow)
    IN  IF c.raised THEN Raised
        ELSE IF ~BoxIsNumeric(ann) THEN Raised
        ELSE Drew(<<[kind |-> "highlight", rgb |-> c.rgb]>>)

DrawRectangle(ann) ==
    LET c == ParseColor(Get(ann, "color", HexBlack), Black)
    IN  IF c.raised THEN Raised
        ELSE IF ~BoxIsNumeric(ann) THEN Raised
        ELSE Drew(<<[kind |-> "rectangle", rgb |-> c.rgb]>>)

DrawLine(ann) ==
    LET c == ParseColor(Get(ann, "color", HexBlack), Black)
    IN  IF ~BoxIsNumeric(ann) THEN Raised
        ELSE IF c.raised THEN Raised
        ELSE IF \E k \in {"x1", "y1", "x2", "y2"} \cap DOMAIN ann : ~IsNum(ann[k])
            THEN Raised
        ELSE Drew(<<[kind |-> "line", rgb |-> c.rgb]>>)

DrawStamp(ann) ==
    LET c == ParseColor(Get(ann, "color", HexGreen), StampGreen)
    IN  IF c.raised THEN Raised
        ELSE IF ~BoxIsNumeric(ann) THEN Raised
        ELSE Drew(<<[kind |-> "stamp_border", rgb |-> c.rgb],
                    [kind |-> "stamp_text", rgb |-> c.rgb]>>)

\* ann.get("borderColor", "") or ann.get("color", "#16a34a")
SignedStampColor(ann) ==
    IF Falsy(Get(ann, "borderColor", Str(<<>>)))
        THEN Get(ann, "color", HexGreen)
        ELSE ann.borderColor

DrawSignedStamp(ann) ==
    LET c == ParseColor(SignedStampColor(ann), StampGreen)
        signature_data == Get(ann, "signatureData", <<>>)
        dated == Get(ann, "dateText", "") # "" \/ Get(ann, "date", "") # ""
        border == <<[kind |-> "signed_border", rgb |-> c.rgb]>>
        title == <<[kind |-> "signed_title", rgb |-> c.rgb]>>
        date == IF dated THEN <<[kind |-> "signed_date", rgb |-> c.rgb]>>
                ELSE <<>>
        signature == IF signature_data = <<>> THEN <<>>
                     ELSE TryInsertImage(ann, signature_data, "image")
    IN  IF c.raised THEN Raised
        ELSE IF ~BoxIsNumeric(ann) THEN Raised
        ELSE IF Get(ann, "shape", "box") = "circle"
            THEN Drew(border \o title \o date \o signature)
            ELSE Drew(border \o title \o signature \o date)

DrawWatermark(ann) ==
    LET c == ParseColor(Get(ann, "color", HexGrey), WatermarkGrey)
        content_type == Get(ann, "contentType", "text")
        border_style == Get(ann, "borderStyle", "none")
        bc == ParseColor(Get(ann, "borderColor", HexGrey), c.rgb)
    IN  IF c.raised THEN Raised
        ELSE IF ~BoxIsNumeric(ann) THEN Raised
        ELSE IF content_type = "text"
            THEN IF border_style # "none"
                    THEN IF bc.raised THEN Raised
                         ELSE Drew(<<[kind |-> "watermark_border", rgb |-> bc.rgb],
                                     [kind |-> "watermark_text", rgb |-> c.rgb]>>)
                    ELSE Drew(<<[kind |-> "watermark_text", rgb |-> c.rgb]>>)
        ELSE IF content_type = "image" /\ Get(ann, "content", <<>>) # <<>>
            THEN Drew(TryInsertImage(ann, ann.content, "watermark_image"))
        ELSE Drew(<<>>)

\* a renderer that rejects a type it does not know
DrawAnnotationFitzStrict(ann) ==
    LET ann_type == Get(ann, "type", "text")
    IN  CASE ann_type = "text" -> DrawText(ann)
          [] ann_type \in {"signature", "image"} -> DrawSignatureOrImage(ann)
          [] ann_type = "drawing" -> DrawDrawing(ann)
          [] ann_type = "checkbox" -> DrawCheckbox(ann)
          [] ann_type = "highlight" -> DrawHighlight(ann)
          [] ann_type = "rectangle" -> DrawRectangle(ann)
          [] ann_type = "line" -> DrawLine(ann)
          [] ann_type = "stamp" -> DrawStamp(ann)
          [] ann_type \in {"signed_stamp", "signedStamp"} -> DrawSignedStamp(ann)
          [] ann_type = "watermark" -> DrawWatermark(ann)
          [] OTHER -> Raised

DrawAnnotationFitz(ann) ==
    LET ann_type == Get(ann, "type", "text")
    IN  CASE ann_type = "text" -> DrawText(ann)
          [] ann_type \in {"signature", "image"} -> DrawSignatureOrImage(ann)
          [] ann_type = "drawing" -> DrawDrawing(ann)
          [] ann_type = "checkbox" -> DrawCheckbox(ann)
          [] ann_type = "highlight" -> DrawHighlight(ann)
          [] ann_type = "rectangle" -> DrawRectangle(ann)
          [] ann_type = "line" -> DrawLine(ann)
          [] ann_type = "stamp" -> DrawStamp(ann)
          [] ann_type \in {"signed_stamp", "signedStamp"} -> DrawSignedStamp(ann)
          [] ann_type = "watermark" -> DrawWatermark(ann)
          [] OTHER -> Drew(<<>>)

-----------------------------------------------------------------------------
(* The page-grouping loop of both passes *)

\* a list or a dict cannot be a dict key
Hashable(v) == ~IsObject(v) /\ v.t # "list"

KeyIndex(dict, key) ==
    IF \E j \in 1..Len(dict) : dict[j].key = key
        THEN CHOOSE j \in 1..Len(dict) : dict[j].key = key
        ELSE 0

\* a grouping that puts each annotation in front of its page's list
RECURSIVE GroupFromPrepends(_, _, _)
GroupFromPrepends(anns, i, dict) ==
    IF i > Len(anns) THEN [raised |-> FALSE, dict |-> dict]
    ELSE IF ~IsObject(anns[i]) THEN [raised |-> TRUE, dict |-> dict]
    ELSE LET page_num == Get(anns[i], "page", Num(1))
             j == KeyIndex(dict, page_num)
         IN  IF ~Hashable(page_num) THEN [raised |-> TRUE, dict |-> dict]
             ELSE IF j = 0
                 THEN GroupFromPrepends(anns, i + 1,
                          Append(dict, [key |-> page_num, items |-> <<i>>]))
                 ELSE GroupFromPrepends(anns, i + 1,
                          [dict EXCEPT ![j].items = <<i>> \o @])

\* the dict after annotations i.. have been added: a sequence of
\* [key, items] in insertion order, items the positions in the list
RECURSIVE GroupFrom(_, _, _)
GroupFrom(anns, i, dict) ==
    IF i > Len(anns) THEN [raised |-> FALSE, dict |-> dict]
    ELSE IF ~IsObject(anns[i]) THEN [raised |-> TRUE, dict |-> dict]
    ELSE LET page_num == Get(anns[i], "page", Num(1))
             j == KeyIndex(dict, page_num)
         IN  IF ~Hashable(page_num) THEN [raised |-> TRUE, dict |-> dict]
             ELSE IF j = 0
                 THEN GroupFrom(anns, i + 1,
                          Append(dict, [key |-> page_num, items |-> <<i>>]))
                 ELSE GroupFrom(anns, i + 1,
                          [dict EXCEPT ![j].items = Append(@, i)])

GroupAnnotations(anns) == GroupFrom(anns, 1, <<>>)

-----------------------------------------------------------------------------
(* fill_pdf: the two passes and the except clauses around them *)

NoResult == [status |-> "none"]

NoFile == [written |-> FALSE]

\* an event of the history
Ev(p, ev, i) == [pass |-> p, ev |-> ev, i |-> i]

\* the handle the running pass opened
cur == Len(docs)

\* fitz.open(stream=pdf_bytes, filetype="pdf")
OpenedDoc(p) == [pass |-> p, pages |-> pdf_pages, open |-> TRUE,
                 marks |-> <<>>, saved |-> FALSE]

FilePhaseUnchanged ==
    UNCHANGED <<pdf_pages, body_kind, annotations, canvas_scale,
                normalized_annotations, output_file, page_number, zoom,
                   form_canvas_scale, requests, handles, loop>>

\* except Exception as e: the hybrid pass raised; fall back to fitz
HybridRaisedPropagates(ev) ==
    /\ trace' = Append(trace, ev)
    /\ result' = [status |-> "raised", error |-> "FileProcessingError",
                  message |-> "Failed to fill PDF"]
    /\ pc' = "done"
    /\ UNCHANGED <<pass, pass_annotations, annotations_by_page, page_idx,
                   ann_pos, docs>>
    /\ FilePhaseUnchanged

HybridRaised(ev) ==
    /\ trace' = Append(trace, ev)
    /\ pass' = "fitz"
    /\ pass_annotations' = normalized_annotations
    /\ pc' = "open"
    /\ annotations_by_page' = <<>>
    /\ page_idx' = 0
    /\ ann_pos' = 0
    /\ UNCHANGED <<docs, result>>
    /\ FilePhaseUnchanged

\* except Exception as e2: the fitz pass raised too
FitzRaisedReturnsInput(ev) ==
    /\ trace' = Append(trace, ev)
    /\ result' = [status |-> "ok", from |-> 0, marks |-> <<>>,
                  total_pages |-> pdf_pages]
    /\ pc' = "write"
    /\ UNCHANGED <<pass, pass_annotations, annotations_by_page, page_idx,
                   ann_pos, docs>>
    /\ FilePhaseUnchanged

FitzRaised(ev) ==
    /\ trace' = Append(trace, ev)
    /\ result' = [status |-> "raised", error |-> "FileProcessingError",
                  message |-> "Failed to fill PDF"]
    /\ pc' = "done"
    /\ UNCHANGED <<pass, pass_annotations, annotations_by_page, page_idx,
                   ann_pos, docs>>
    /\ FilePhaseUnchanged

\* the endpoint: json.loads(annotations) and the isinstance check
ParseAnnotations ==
    /\ pc = "parse"
    /\ \/ /\ body_kind = "invalid_json"
          /\ result' = [status |-> "raised", error |-> "BadRequestError",
                        message |-> "Invalid annotations JSON"]
          /\ pc' = "done"
       \/ /\ body_kind = "not_list"
          /\ result' = [status |-> "raised", error |-> "BadRequestError",
                        message |-> "Annotations must be a list"]
          /\ pc' = "done"
       \/ /\ body_kind = "list"
          /\ pc' = "fill"
          /\ UNCHANGED result
    /\ UNCHANGED <<pass, pass_annotations, annotations_by_page, page_idx,
                   ann_pos, docs, trace>>
    /\ FilePhaseUnchanged

\* a fill whose normalizer divides the lengths in the caller's own records
FillPdfInPlace ==
    /\ pc = "fill"
    /\ LET n == Normalize(annotations, canvas_scale)
       IN  \/ /\ n.raised
              /\ result' = [status |-> "raised", error |-> "NormalizeError",
                            message |-> ""]
              /\ pc' = "done"
              /\ UNCHANGED <<annotations, normalized_annotations, pass,
                             pass_annotations>>
           \/ /\ ~n.raised
              /\ annotations' = n.value
              /\ normalized_annotations' = n.value
              /\ pass' = "hybrid"
              /\ pass_annotations' = n.value
              /\ pc' = "open"
              /\ UNCHANGED result
    /\ UNCHANGED <<pdf_pages, body_kind, canvas_scale,
                   annotations_by_page, page_idx, ann_pos, docs, trace,
                   output_file, page_number, zoom,
                   form_canvas_scale, requests, handles, loop>>

\* fill_pdf up to the call of the hybrid pass
FillPdf ==
    /\ pc = "fill"
    /\ LET n == Normalize(annotations, canvas_scale)
       IN  \/ /\ n.raised
              /\ result' = [status |-> "raised", error |-> "NormalizeError",
                            message |-> ""]
              /\ pc' = "done"
              /\ UNCHANGED <<normalized_annotations, pass, pass_annotations>>
           \/ /\ ~n.raised
              /\ normalized_annotations' = n.value
              /\ pass' = "hybrid"
              /\ pass_annotations' = n.value
              /\ pc' = "open"
              /\ UNCHANGED result
    /\ UNCHANGED <<pdf_pages, body_kind, annotations, canvas_scale,
                   annotations_by_page, page_idx, ann_pos, docs, trace,
                   output_file, page_number, zoom,
                   form_canvas_scale, requests, handles, loop>>

-----------------------------------------------------------------------------
(* _fill_pdf_hybrid, the primary pass *)

PassFrame ==
    UNCHANGED <<pdf_pages, body_kind, annotations, canvas_scale,
                normalized_annotations, pass, pass_annotations, output_file,
                page_number, zoom,
                   form_canvas_scale, requests, handles, loop>>

\* where the page loop goes after page index idx (0-based) is finished
AfterPage(idx, total_pages) == IF idx + 1 >= total_pages THEN "save" ELSE "page"

\* a compositor for which a failed open ends the fill at once
HybridOpenFatal ==
    /\ pc = "open" /\ pass = "hybrid"
    /\ \/ /\ docs' = Append(docs, OpenedDoc("hybrid"))
          /\ trace' = Append(trace, Ev("hybrid", "open", 0))
          /\ pc' = "group"
          /\ UNCHANGED <<annotations_by_page, page_idx, ann_pos, result>>
          /\ PassFrame
       \/ FitzRaised(Ev("hybrid", "open_raise", 0))

\* fitz.open on the input bytes; the library call may raise
HybridOpen ==
    /\ pc = "open" /\ pass = "hybrid"
    /\ \/ /\ docs' = Append(docs, OpenedDoc("hybrid"))
          /\ trace' = Append(trace, Ev("hybrid", "open", 0))
          /\ pc' = "group"
          /\ UNCHANGED <<annotations_by_page, page_idx, ann_pos, result>>
          /\ PassFrame
       \/ HybridRaised(Ev("hybrid", "open_raise", 0))

HybridGroup ==
    /\ pc = "group" /\ pass = "hybrid"
    /\ LET g == GroupAnnotations(pass_annotations)
       IN  \/ /\ ~g.raised
              /\ annotations_by_page' = g.dict
              /\ page_idx' = 0
              /\ ann_pos' = 0
              /\ pc' = "page"
              /\ trace' = Append(trace, Ev("hybrid", "group", 0))
              /\ UNCHANGED <<docs, result>>
              /\ PassFrame
           \/ /\ g.raised
              /\ HybridRaised(Ev("hybrid", "group_raise", 0))

\* one turn of "for page_idx in range(total_pages)" up to the inner loop:
\* doc[page_idx] may raise
HybridPage ==
    /\ pc = "page" /\ pass = "hybrid"
    /\ LET page_num == page_idx + 1
           total_pages == docs[cur].pages
       IN  \/ /\ KeyIndex(annotations_by_page, Num(page_num)) # 0
              /\ pc' = "draw"
              /\ ann_pos' = 1
              /\ trace' = Append(trace, Ev("hybrid", "load", page_num))
              /\ UNCHANGED <<page_idx, annotations_by_page, docs, result>>
              /\ PassFrame
           \/ /\ KeyIndex(annotations_by_page, Num(page_num)) = 0
              /\ pc' = AfterPage(page_idx, total_pages)
              /\ page_idx' = page_idx + 1
              /\ trace' = Append(trace, Ev("hybrid", "load", page_num))
              /\ UNCHANGED <<ann_pos, annotations_by_page, docs, result>>
              /\ PassFrame
           \/ HybridRaised(Ev("hybrid", "load_raise", page_num))

\* a primary pass that hands every annotation to the renderer twice
HybridDrawTwice ==
    /\ pc = "draw" /\ pass = "hybrid"
    /\ LET items == annotations_by_page[
                        KeyIndex(annotations_by_page, Num(page_idx + 1))].items
           i == items[ann_pos]
           r == DrawAnnotationFitz(pass_annotations[i])
           total_pages == docs[cur].pages
           drawn == [k \in 1..Len(r.marks) |-> [i |-> i, mark |-> r.marks[k]]]
       IN  \/ /\ ~r.raised
              /\ docs' = [docs EXCEPT ![cur].marks = @ \o drawn \o drawn]
              /\ trace' = trace \o <<Ev("hybrid", "call", i),
                                     Ev("hybrid", "call", i)>>
              /\ IF ann_pos < Len(items)
                    THEN /\ ann_pos' = ann_pos + 1
                         /\ UNCHANGED <<pc, page_idx>>
                    ELSE /\ ann_pos' = 0
                         /\ page_idx' = page_idx + 1
                         /\ pc' = AfterPage(page_idx, total_pages)
              /\ UNCHANGED <<annotations_by_page, result>>
              /\ PassFrame
           \/ /\ r.raised
              /\ HybridRaised(Ev("hybrid", "call_raise", i))

\* one turn of "for ann in annotations_by_page[page_num]"
HybridDraw ==
    /\ pc = "draw" /\ pass = "hybrid"
    /\ LET items == annotations_by_page[
                        KeyIndex(annotations_by_page, Num(page_idx + 1))].items
           i == items[ann_pos]
           r == DrawAnnotationFitz(pass_annotations[i])
           total_pages == docs[cur].pages
       IN  \/ /\ ~r.raised
              /\ docs' = [docs EXCEPT ![cur].marks =
                              @ \o [k \in 1..Len(r.marks) |->
                                       [i |-> i, mark |-> r.marks[k]]]]
              /\ trace' = Append(trace, Ev("hybrid", "call", i))
              /\ IF ann_pos < Len(items)
                    THEN /\ ann_pos' = ann_pos + 1
                         /\ UNCHANGED <<pc, page_idx>>
                    ELSE /\ ann_pos' = 0
                         /\ page_idx' = page_idx + 1
                         /\ pc' = AfterPage(page_idx, total_pages)
              /\ UNCHANGED <<annotations_by_page, result>>
              /\ PassFrame
           \/ /\ r.raised
              /\ HybridRaised(Ev("hybrid", "call_raise", i))

\* a pass that reports the number of pages it grouped annotations for
ReturnedGroupedPages(h) ==
    [status |-> "ok", from |-> h, marks |-> docs[h].marks,
     total_pages |-> Len(annotations_by_page)]

\* what a successful pass returns: output.getvalue(), total_pages
Returned(h) == [status |-> "ok", from |-> h, marks |-> docs[h].marks,
                total_pages |-> docs[h].pages]

\* doc.save(...), doc.close(), return; doc.save may raise
HybridSave ==
    /\ pc = "save" /\ pass = "hybrid"
    /\ \/ /\ docs' = [docs EXCEPT ![cur].saved = TRUE, ![cur].open = FALSE]
          /\ result' = Returned(cur)
          /\ trace' = Append(trace, Ev("hybrid", "save", 0))
          /\ pc' = "write"
          /\ UNCHANGED <<annotations_by_page, page_idx, ann_pos>>
          /\ PassFrame
       \/ HybridRaised(Ev("hybrid", "save_raise", 0))

-----------------------------------------------------------------------------
(* _fill_pdf_with_fitz, the fallback pass *)

\* where the items loop goes after item pos (1-based) is finished
AfterItem(pos, dict) == IF pos >= Len(dict) THEN "save" ELSE "page"

FitzOpenReusesHandle ==
    /\ pc = "open" /\ pass = "fitz"
    /\ \/ /\ docs' = Append(docs,
                        IF docs = <<>> THEN OpenedDoc("fitz")
                        ELSE [docs[cur] EXCEPT !.pass = "fitz"])
          /\ trace' = Append(trace, Ev("fitz", "open", 0))
          /\ pc' = "group"
          /\ UNCHANGED <<annotations_by_page, page_idx, ann_pos, result>>
          /\ PassFrame
       \/ FitzRaised(Ev("fitz", "open_raise", 0))

FitzOpen ==
    /\ pc = "open" /\ pass = "fitz"
    /\ \/ /\ docs' = Append(docs, OpenedDoc("fitz"))
          /\ trace' = Append(trace, Ev("fitz", "open", 0))
          /\ pc' = "group"
          /\ UNCHANGED <<annotations_by_page, page_idx, ann_pos, result>>
          /\ PassFrame
       \/ FitzRaised(Ev("fitz", "open_raise", 0))

FitzGroup ==
    /\ pc = "group" /\ pass = "fitz"
    /\ LET g == GroupAnnotations(pass_annotations)
       IN  \/ /\ ~g.raised
              /\ annotations_by_page' = g.dict
              /\ page_idx' = 1
              /\ ann_pos' = 0
              /\ pc' = IF g.dict = <<>> THEN "save" ELSE "page"
              /\ trace' = Append(trace, Ev("fitz", "group", 0))
              /\ UNCHANGED <<docs, result>>
              /\ PassFrame
           \/ /\ g.raised
              /\ FitzRaised(Ev("fitz", "group_raise", 0))

\* page_num < 1 or page_num > total_pages: TypeError when page_num is no
\* number
RangeCheckRaises(page_num) == ~IsNum(page_num)

OutOfRangeLowerOnly(page_num, total_pages) == Less(page_num, Num(1))

OutOfRange(page_num, total_pages) ==
    Less(page_num, Num(1)) \/ Less(Num(total_pages), page_num)

\* one turn of "for page_num, page_annotations in ....items()" up to the
\* inner loop: the range check, then doc[page_num - 1], which may raise
\* and raises for an index that is no integer
FitzPage ==
    /\ pc = "page" /\ pass = "fitz"
    /\ LET page_num == annotations_by_page[page_idx].key
           total_pages == docs[cur].pages
       IN  \/ /\ RangeCheckRaises(page_num)
              /\ FitzRaised(Ev("fitz", "select_raise", page_idx))
           \/ /\ ~RangeCheckRaises(page_num)
              /\ OutOfRange(page_num, total_pages)
              /\ pc' = AfterItem(page_idx, annotations_by_page)
              /\ page_idx' = page_idx + 1
              /\ trace' = Append(trace, Ev("fitz", "skip", page_idx))
              /\ UNCHANGED <<ann_pos, annotations_by_page, docs, result>>
              /\ PassFrame
           \/ /\ ~RangeCheckRaises(page_num)
              /\ ~OutOfRange(page_num, total_pages)
              /\ IsInteger(page_num)
              /\ pc' = "draw"
              /\ ann_pos' = 1
              /\ trace' = Append(trace, Ev("fitz", "load", page_num.n))
              /\ UNCHANGED <<page_idx, annotations_by_page, docs, result>>
              /\ PassFrame
           \/ /\ ~RangeCheckRaises(page_num)
              /\ ~OutOfRange(page_num, total_pages)
              /\ FitzRaised(Ev("fitz", "load_raise", page_idx))

\* one turn of "for ann in page_annotations"
FitzDraw ==
    /\ pc = "draw" /\ pass = "fitz"
    /\ LET items == annotations_by_page[page_idx].items
           i == items[ann_pos]
           r == DrawAnnotationFitz(pass_annotations[i])
       IN  \/ /\ ~r.raised
              /\ docs' = [docs EXCEPT ![cur].marks =
                              @ \o [k \in 1..Len(r.marks) |->
                                       [i |-> i, mark |-> r.marks[k]]]]
              /\ trace' = Append(trace, Ev("fitz", "call", i))
              /\ IF ann_pos < Len(items)
                    THEN /\ ann_pos' = ann_pos + 1
                         /\ UNCHANGED <<pc, page_idx>>
                    ELSE /\ ann_pos' = 0
                         /\ page_idx' = page_idx + 1
                         /\ pc' = AfterItem(page_idx, annotations_by_page)
              /\ UNCHANGED <<annotations_by_page, result>>
              /\ PassFrame
           \/ /\ r.raised
              /\ FitzRaised(Ev("fitz", "call_raise", i))

FitzSave ==
    /\ pc = "save" /\ pass = "fitz"
    /\ \/ /\ docs' = [docs EXCEPT ![cur].saved = TRUE, ![cur].open = FALSE]
          /\ result' = Returned(cur)
          /\ trace' = Append(trace, Ev("fitz", "save", 0))
          /\ pc' = "write"
          /\ UNCHANGED <<annotations_by_page, page_idx, ann_pos>>
          /\ PassFrame
       \/ FitzRaised(Ev("fitz", "save_raise", 0))

\* the endpoint after fill_pdf returned: open(filepath, "wb").write(filled_bytes)
WriteOutput ==
    /\ pc = "write"
    /\ output_file' = [written |-> TRUE, from |-> result.from,
                       marks |-> result.marks]
    /\ pc' = "done"
    /\ UNCHANGED <<pdf_pages, body_kind, annotations, canvas_scale,
                   normalized_annotations, pass, pass_annotations, docs,
                   annotations_by_page, page_idx, ann_pos, trace, result,
                   page_number, zoom,
                   form_canvas_scale, requests, handles, loop>>

-----------------------------------------------------------------------------
(* render_page_to_image *)

RenderFrame ==
    UNCHANGED <<pdf_pages, body_kind, annotations, canvas_scale,
                normalized_annotations, pass, pass_annotations,
                annotations_by_page, page_idx, ann_pos, output_file,
                page_number, zoom,
                   form_canvas_scale, requests, handles, loop>>

\* except Exception as e: raise FileProcessingError("Failed to render PDF
\* page: ..."), whatever was raised inside the try block
RenderRaised(ev) ==
    /\ trace' = Append(trace, ev)
    /\ result' = [status |-> "raised", error |-> "FileProcessingError",
                  message |-> "Failed to render PDF page"]
    /\ pc' = "done"
    /\ UNCHANGED docs
    /\ RenderFrame

\* fitz.open on the input bytes; the library call may raise
RenderOpen ==
    /\ pc = "render_open"
    /\ \/ /\ docs' = Append(docs, OpenedDoc("render"))
          /\ trace' = Append(trace, Ev("render", "open", 0))
          /\ pc' = "render_check"
          /\ UNCHANGED result
          /\ RenderFrame
       \/ RenderRaised(Ev("render", "open_raise", 0))

\* if page_number < 1 or page_number > len(doc): raise BadRequestError,
\* inside the try block
RenderCheckPage ==
    /\ pc = "render_check"
    /\ \/ /\ page_number < 1 \/ page_number > docs[cur].pages
          /\ RenderRaised(Ev("render", "invalid_page", page_number))
       \/ /\ ~(page_number < 1 \/ page_number > docs[cur].pages)
          /\ pc' = "render_pixmap"
          /\ trace' = Append(trace, Ev("render", "load", page_number))
          /\ UNCHANGED <<docs, result>>
          /\ RenderFrame

\* get_pixmap, tobytes("png"), doc.close(), return; the library calls may
\* raise
RenderPixmap ==
    /\ pc = "render_pixmap"
    /\ \/ /\ docs' = [docs EXCEPT ![cur].open = FALSE]
          /\ result' = [status |-> "ok", page |-> page_number, zoom |-> zoom]
          /\ trace' = Append(trace, Ev("render", "pixmap", page_number))
          /\ pc' = "done"
          /\ RenderFrame
       \/ RenderRaised(Ev("render", "pixmap_raise", page_number))

-----------------------------------------------------------------------------
(* _normalize_annotations called on its own *)

NormalizeAnnotations ==
    /\ pc = "normalize"
    /\ LET n == Normalize(annotations, canvas_scale)
       IN  \/ /\ n.raised
              /\ result' = [status |-> "raised", error |-> "NormalizeError",
                            message |-> ""]
              /\ UNCHANGED normalized_annotations
           \/ /\ ~n.raised
              /\ normalized_annotations' = n.value
              /\ result' = [status |-> "ok"]
    /\ pc' = "done"
    /\ UNCHANGED <<pdf_pages, body_kind, annotations, canvas_scale, pass,
                   pass_annotations, docs, annotations_by_page, page_idx,
                   ann_pos, trace, output_file, page_number, zoom,
                   form_canvas_scale, requests, handles, loop>>

-----------------------------------------------------------------------------
(* The endpoint's parsing of the canvas_scale form field:                  *)
(*   try: scale = float(canvas_scale) if canvas_scale else 1.0             *)
(*   except ValueError: scale = 1.0                                        *)

DecDigits == <<"0", "1", "2", "3", "4", "5", "6", "7", "8", "9">>

IsDecDigit(c) == \E i \in 1..Len(DecDigits) : DecDigits[i] = c

DecValue(c) == (CHOOSE i \in 1..Len(DecDigits) : DecDigits[i] = c) - 1

\* the integer a string of decimal digits denotes ("" is 0)
RECURSIVE DigitsValue(_)
DigitsValue(s) ==
    IF s = <<>> THEN 0
    ELSE 10 * DigitsValue(SubSeq(s, 1, Len(s) - 1)) + DecValue(s[Len(s)])

RECURSIVE Pow10(_)
Pow10(n) == IF n = 0 THEN 1 ELSE 10 * Pow10(n - 1)

\* float(s) of digits with at most one ".": [ok, v]; ok = FALSE is ValueError
ParseUnsigned(s) ==
    LET dots == {i \in 1..Len(s) : s[i] = "."}
        digits == SelectSeq(s, IsDecDigit)
    IN  IF \/ \E i \in 1..Len(s) : ~IsDecDigit(s[i]) /\ s[i] # "."
           \/ Cardinality(dots) > 1
           \/ digits = <<>>
            THEN [ok |-> FALSE, v |-> Num(0)]
        ELSE LET dot == IF dots = {} THEN Len(s) + 1 ELSE CHOOSE i \in dots : TRUE
             IN  [ok |-> TRUE,
                  v |-> Frac(DigitsValue(digits),
                             Pow10(IF dots = {} THEN 0 ELSE Len(s) - dot))]

\* float(s) of a decimal literal without exponent: one optional sign, then
\* digits with at most one "."; any other text of letters is ValueError
ParseFloat(s) ==
    IF s # <<>> /\ s[1] \in {"+", "-"}
        THEN LET u == ParseUnsigned(Tail(s))
             IN  IF s[1] = "-" /\ u.ok
                     THEN [ok |-> TRUE, v |-> Frac(0 - u.v.n, u.v.d)]
                     ELSE u
        ELSE ParseUnsigned(s)

\* the scale the endpoint passes to fill_pdf
ScaleOf(form) ==
    IF form = Null \/ form = Str(<<>>) THEN Num(1)
    ELSE IF ParseFloat(form.s).ok THEN ParseFloat(form.s).v
    ELSE Num(1)

ParseScale ==
    /\ pc = "scale"
    /\ canvas_scale' = ScaleOf(form_canvas_scale)
    /\ pc' = "parse"
    /\ UNCHANGED <<pdf_pages, body_kind, annotations, normalized_annotations,
                   pass, pass_annotations, docs, annotations_by_page,
                   page_idx, ann_pos, trace, result, output_file,
                   page_number, zoom, form_canvas_scale, requests, handles,
                   loop>>

-----------------------------------------------------------------------------
(* Inputs *)

\* every list of at most n elements of S
Lists(S, n) == UNION {[1..k -> S] : k \in 0..n}

HexRed == Str(<<"#", "f", "f", "0", "0", "0", "0">>)

PageValues == {Num(p) : p \in (0 - 1)..(MaxPages + 1)}

ScaleValues == {Num(1), Num(2)}

TextNoPage ==
    [type |-> "text", x |-> Num(4), y |-> Num(6), fontSize |-> Num(12),
     color |-> HexRed]

TextAt(p) ==
    [type |-> "text", page |-> p, x |-> Num(4), y |-> Num(6),
     fontSize |-> Num(12), color |-> HexRed]

\* "color": null
TextNullColor == [type |-> "text", page |-> Num(1), color |-> Null]

PagePool == {TextAt(p) : p \in PageValues} \cup {TextNoPage, TextNullColor}

\* a form field the endpoint parses to the scale: absent for 1.0
FormOf(scale) == IF scale = Num(1) THEN Null ELSE Str(<<"2">>)

\* no request is served by the event loop
NoLoop ==
    /\ requests = <<>>
    /\ handles = <<>>
    /\ loop = 0

RequestInit(pool) ==
    /\ pdf_pages \in 1..MaxPages
    /\ body_kind \in {"list", "not_list", "invalid_json"}
    /\ annotations \in Lists(pool, MaxAnns)
    /\ body_kind # "list" => annotations = <<>>
    /\ canvas_scale \in ScaleValues
    /\ body_kind # "list" => canvas_scale = Num(1)
    /\ pc = "parse"
    /\ normalized_annotations = <<>>
    /\ pass = "none"
    /\ pass_annotations = <<>>
    /\ docs = <<>>
    /\ annotations_by_page = <<>>
    /\ page_idx = 0
    /\ ann_pos = 0
    /\ trace = <<>>
    /\ result = NoResult
    /\ output_file = NoFile
    /\ page_number = 0
    /\ zoom = Num(1)
    /\ form_canvas_scale = FormOf(canvas_scale)
    /\ NoLoop

Init == RequestInit(PagePool)

\* Annotations that differ in what the renderer does with them
Box(type) ==
    [type |-> type, page |-> Num(1), x |-> Num(4), y |-> Num(6),
     width |-> Num(200), height |-> Num(40)]

\* a payload that does not decode
SignatureJunk == Box("signature") @@ [data |-> <<"junk">>]

\* a data URL whose payload decodes, on page 2
ImageDataUrl ==
    [Box("image") EXCEPT !.page = Num(2)] @@ [data |-> <<"hdr", "png">>]

WatermarkImageJunk ==
    Box("watermark") @@ [contentType |-> "image", content |-> <<"junk">>]

SignedStampJunk ==
    Box("signed_stamp") @@ [signatureData |-> <<"junk">>, dateText |-> "d"]

\* an array element that is no object
NotAnObject == Num(5)

\* "x": "a"
TextBadX == [TextAt(Num(1)) EXCEPT !.x = Str(<<"a">>)]

\* "color": "#ff"
HighlightShortColor == Box("highlight") @@ [color |-> Str(<<"#", "f", "f">>)]

\* "color": "#gg0000"
StampNonHexColor ==
    Box("stamp") @@ [color |-> Str(<<"#", "g", "g", "0", "0", "0", "0">>)]

\* "color": 7
RectangleNumberColor == Box("rectangle") @@ [color |-> Num(7)]

MarkPool ==
    {TextAt(Num(1)), SignatureJunk, ImageDataUrl, WatermarkImageJunk,
     SignedStampJunk, NotAnObject, TextBadX, TextNullColor,
     HighlightShortColor, StampNonHexColor, RectangleNumberColor}

InitMarks == RequestInit(MarkPool)

Next ==
    \/ ParseAnnotations
    \/ FillPdf
    \/ HybridOpen
    \/ HybridGroup
    \/ HybridPage
    \/ HybridDraw
    \/ HybridSave
    \/ FitzOpen
    \/ FitzGroup
    \/ FitzPage
    \/ FitzDraw
    \/ FitzSave
    \/ WriteOutput

Spec == Init /\ [][Next]_vars

SpecMarks == InitMarks /\ [][Next]_vars

\* Annotations that differ in their length fields
LineAnn ==
    [type |-> "line", page |-> Num(1), x1 |-> Num(2), y1 |-> Num(3),
     x2 |-> Num(8), y2 |-> Num(9), strokeWidth |-> Num(3), color |-> HexRed]

\* the second point carries a key besides "x" and "y"
DrawingAnn ==
    [type |-> "drawing", page |-> Num(1), strokeWidth |-> Num(2),
     color |-> HexRed,
     paths |-> <<[points |-> <<[x |-> Num(2), y |-> Num(4)],
                               [x |-> Num(6), y |-> Num(8),
                                pressure |-> Num(1)]>>],
                 [tool |-> "pen"]>>]

\* x=100, y=100, width=200, height=40, fontSize=24
ExampleText ==
    [type |-> "text", page |-> Num(1), text |-> "Hello", x |-> Num(100),
     y |-> Num(100), width |-> Num(200), height |-> Num(40),
     fontSize |-> Num(24), color |-> HexRed]

\* numbers and a flag that are no lengths
WatermarkAnn ==
    [type |-> "watermark", page |-> Num(2), contentType |-> "text",
     content |-> <<"draft">>, rotation |-> Num(45), opacity |-> Frac(3, 10),
     tiled |-> [t |-> "bool", b |-> TRUE], fontSize |-> Num(48),
     color |-> HexRed]

NormPool ==
    {TextAt(Num(1)), Box("rectangle"), LineAnn, DrawingAnn, TextBadX,
     NotAnObject, ExampleText, WatermarkAnn}

\* the floats the normalizer is called with
NormScaleValues == {Num(0), Num(1), Num(2), Frac(3, 2)}

InitNorm ==
    /\ pdf_pages = 1
    /\ body_kind = "list"
    /\ annotations \in Lists(NormPool, MaxAnns)
    /\ canvas_scale \in NormScaleValues
    /\ pc = "normalize"
    /\ normalized_annotations = <<>>
    /\ pass = "none"
    /\ pass_annotations = <<>>
    /\ docs = <<>>
    /\ annotations_by_page = <<>>
    /\ page_idx = 0
    /\ ann_pos = 0
    /\ trace = <<>>
    /\ result = NoResult
    /\ output_file = NoFile
    /\ page_number = 0
    /\ zoom = Num(1)
    /\ form_canvas_scale = Null
    /\ NoLoop

NextNorm == NormalizeAnnotations

SpecNorm == InitNorm /\ [][NextNorm]_vars

ZoomValues == {Num(1), Frac(3, 2), Num(2)}

InitRender ==
    /\ pdf_pages \in 1..MaxPages
    /\ page_number \in (0 - 1)..(MaxPages + 1)
    /\ zoom \in ZoomValues
    /\ body_kind = "list"
    /\ annotations = <<>>
    /\ canvas_scale = Num(1)
    /\ pc = "render_open"
    /\ normalized_annotations = <<>>
    /\ pass = "none"
    /\ pass_annotations = <<>>
    /\ docs = <<>>
    /\ annotations_by_page = <<>>
    /\ page_idx = 0
    /\ ann_pos = 0
    /\ trace = <<>>
    /\ result = NoResult
    /\ output_file = NoFile
    /\ form_canvas_scale = Null
    /\ NoLoop

NextRender ==
    \/ RenderOpen
    \/ RenderCheckPage
    \/ RenderPixmap

SpecRender == InitRender /\ [][NextRender]_vars

\* the form values of canvas_scale: absent, "", "abc", "1", "2", "1.5", "0",
\* "-2"
FormScaleValues ==
    {Null, Str(<<>>), Str(<<"a", "b", "c">>), Str(<<"1">>), Str(<<"2">>),
     Str(<<"1", ".", "5">>), Str(<<"0">>), Str(<<"-", "2">>)}

ScalePool == {ExampleText, TextNullColor, TextAt(Num(2))}

InitScale ==
    /\ pdf_pages \in 1..MaxPages
    /\ body_kind \in {"list", "not_list", "invalid_json"}
    /\ annotations \in Lists(ScalePool, MaxAnns)
    /\ body_kind # "list" => annotations = <<>>
    /\ form_canvas_scale \in FormScaleValues
    /\ canvas_scale = Null
    /\ pc = "scale"
    /\ normalized_annotations = <<>>
    /\ pass = "none"
    /\ pass_annotations = <<>>
    /\ docs = <<>>
    /\ annotations_by_page = <<>>
    /\ page_idx = 0
    /\ ann_pos = 0
    /\ trace = <<>>
    /\ result = NoResult
    /\ output_file = NoFile
    /\ page_number = 0
    /\ zoom = Num(1)
    /\ NoLoop

NextScale ==
    \/ ParseScale
    \/ ParseAnnotations
    \/ FillPdf
    \/ HybridOpen
    \/ HybridGroup
    \/ HybridPage
    \/ HybridDraw
    \/ HybridSave
    \/ FitzOpen
    \/ FitzGroup
    \/ FitzPage
    \/ FitzDraw
    \/ FitzSave
    \/ WriteOutput

SpecScale == InitScale /\ [][NextScale]_vars


-----------------------------------------------------------------------------
(* Reading the history *)

RaiseEvents == {"open_raise", "group_raise", "load_raise", "select_raise",
                "call_raise", "save_raise"}

\* pass p raised
PassRaised(p) ==
    \E k \in 1..Len(trace) : trace[k].pass = p /\ trace[k].ev \in RaiseEvents

\* pass p produced the event ev
Happened(p, ev) ==
    \E k \in 1..Len(trace) : trace[k].pass = p /\ trace[k].ev = ev

\* the completed renderer calls of pass p, as positions in its list
CallsOf(p) ==
    LET calls == SelectSeq(trace, LAMBDA e : e.pass = p /\ e.ev = "call")
    IN  [k \in 1..Len(calls) |-> calls[k].i]

\* the marks the calls of a list of positions leave, in order
RECURSIVE MarksOf(_, _)
MarksOf(anns, calls) ==
    IF calls = <<>> THEN <<>>
    ELSE LET i == Head(calls)
             m == DrawAnnotationFitz(anns[i]).marks
         IN  [k \in 1..Len(m) |-> [i |-> i, mark |-> m[k]]]
                 \o MarksOf(anns, Tail(calls))

PageOf(ann) == Get(ann, "page", Num(1))

\* the annotation is addressed to a page of the document
InRangePage(ann, total_pages) ==
    /\ IsInteger(PageOf(ann))
    /\ PageOf(ann).n >= 1
    /\ PageOf(ann).n <= total_pages

\* the annotation is addressed to page 0, a negative page, or a page
\* past the last
OutOfRangePage(ann, total_pages) ==
    /\ IsInteger(PageOf(ann))
    /\ PageOf(ann).n < 1 \/ PageOf(ann).n > total_pages

Failed == [status |-> "raised", error |-> "FileProcessingError",
           message |-> "Failed to fill PDF"]

-----------------------------------------------------------------------------
(* C1.  Whenever the primary pass raises, the fallback pass is attempted   *)
(* on the same bytes and the same normalized annotations; when the         *)
(* fallback completes, fill returns the fallback's serialized document     *)
(* and the input document's page count.                                    *)

C1_FallbackAfterPrimaryFailure ==
    PassRaised("hybrid") =>
        /\ pass = "fitz"
        /\ pass_annotations = normalized_annotations
        /\ pc = "done" => Happened("fitz", "open") \/ Happened("fitz", "open_raise")
        /\ Happened("fitz", "open") =>
                docs[cur].pass = "fitz" /\ docs[cur].pages = pdf_pages
        /\ Happened("fitz", "save") =>
                /\ pc \in {"write", "done"}
                /\ result.status = "ok"
                /\ result.from = cur
                /\ result.marks = docs[cur].marks
                /\ result.total_pages = pdf_pages

C1_Witness ==
    /\ PassRaised("hybrid")
    /\ canvas_scale = Num(2)
    /\ pc = "done"
    /\ result.status = "ok"
    /\ result.marks # <<>>

(* C2.  When both passes raise, fill fails with the one render error and   *)
(* yields no bytes: neither the input's nor a pass's, and the endpoint     *)
(* writes no output file.                                                  *)

C2_BothFailIsFatal ==
    PassRaised("hybrid") /\ PassRaised("fitz") =>
        /\ pc = "done"
        /\ result = Failed
        /\ output_file = NoFile

C2_Witness ==
    /\ PassRaised("hybrid")
    /\ PassRaised("fitz")
    /\ Happened("hybrid", "call")
    /\ Happened("fitz", "call")

(* C3.  Whenever fill returns bytes, they were serialized from one handle  *)
(* on which the renderer ran exactly once, to completion, for every        *)
(* annotation addressed to a page of the document; marks of a primary      *)
(* pass that failed part-way are not in them.                              *)

C3_NoPartialDocument ==
    result.status = "ok" =>
        LET h == result.from
            p == docs[h].pass
            calls == CallsOf(p)
        IN  /\ h \in 1..Len(docs)
            /\ docs[h].saved
            /\ \A g \in 1..Len(docs) : docs[g].saved => g = h
            /\ ~PassRaised(p)
            /\ \A j, k \in 1..Len(calls) : calls[j] = calls[k] => j = k
            /\ {calls[k] : k \in 1..Len(calls)} =
                   {i \in 1..Len(pass_annotations) :
                        InRangePage(pass_annotations[i], pdf_pages)}
            /\ result.marks = MarksOf(pass_annotations, calls)

C3_Witness ==
    /\ result.status = "ok"
    /\ docs[result.from].pass = "fitz"
    /\ Happened("hybrid", "call")
    /\ Len(CallsOf("fitz")) = 2

(* C4.  An annotation addressed to page 0, a negative page or a page past  *)
(* the last is skipped without error: it is never rendered, no pass        *)
(* raises on reaching it, and the renderer calls of a successful fill are  *)
(* those of the list without it.                                           *)

\* the list without its out-of-range annotations
WithoutOutOfRange(anns) ==
    SelectSeq(anns, LAMBDA a : ~OutOfRangePage(a, pdf_pages))

\* the annotations of pages p .. total_pages, page by page, each page's in
\* list order
RECURSIVE ByPage(_, _, _)
ByPage(anns, p, total_pages) ==
    IF p > total_pages THEN <<>>
    ELSE SelectSeq(anns, LAMBDA a : PageOf(a) = Num(p))
             \o ByPage(anns, p + 1, total_pages)

\* the annotations grouped by page in order of each page's first
\* annotation, each page's in list order
RECURSIVE ByFirstAppearance(_)
ByFirstAppearance(anns) ==
    IF anns = <<>> THEN <<>>
    ELSE SelectSeq(anns, LAMBDA a : PageOf(a) = PageOf(Head(anns)))
             \o ByFirstAppearance(
                    SelectSeq(anns, LAMBDA a : PageOf(a) # PageOf(Head(anns))))

\* the annotations pass p rendered, in call order
CalledAnns(p) ==
    [k \in 1..Len(CallsOf(p)) |-> pass_annotations[CallsOf(p)[k]]]

C4_OutOfRangeSkipped ==
    /\ \A k \in 1..Len(trace) :
           trace[k].ev \in {"call", "call_raise"} =>
               ~OutOfRangePage(pass_annotations[trace[k].i], pdf_pages)
    /\ \A k \in 1..Len(trace) :
           trace[k].pass = "fitz" /\ trace[k].ev \in {"select_raise", "load_raise"} =>
               LET key == annotations_by_page[trace[k].i].key
               IN  ~(IsInteger(key) /\ (key.n < 1 \/ key.n > pdf_pages))
    /\ result.status = "ok" =>
           CalledAnns(docs[result.from].pass) =
               IF docs[result.from].pass = "hybrid"
                   THEN ByPage(WithoutOutOfRange(pass_annotations), 1, pdf_pages)
                   ELSE ByFirstAppearance(WithoutOutOfRange(pass_annotations))

C4_Witness ==
    /\ pc = "done"
    /\ result.status = "ok"
    /\ docs[result.from].pass = "fitz"
    /\ Len(pass_annotations) = 2
    /\ PageOf(pass_annotations[1]) = Num(pdf_pages + 1)
    /\ CallsOf("fitz") = <<2>>

(* C5.  render_page_to_image with a page number below 1 or above the page  *)
(* count fails with the bad-request "Invalid page number" error raised     *)
(* for the page check, not with the generic rendering failure.             *)

C5_InvalidPageIsBadRequest ==
    Happened("render", "invalid_page") =>
        /\ result.status = "raised"
        /\ result.error = "BadRequestError"

(* C6.  A malformed annotation payload (no JSON array, an element that is  *)
(* no object, a field of the wrong type) is fatal for the fill request,    *)
(* and when the error it causes is raised no renderer has yet drawn on     *)
(* any handle of the request.                                              *)

WrongTypeField(ann) ==
    /\ IsObject(ann)
    /\ \/ \E k \in LengthKeys \cap DOMAIN ann : ~IsNum(ann[k])
       \/ "color" \in DOMAIN ann /\ ~IsStr(ann.color)

Malformed ==
    \/ body_kind # "list"
    \/ \E i \in 1..Len(annotations) :
           ~IsObject(annotations[i]) \/ WrongTypeField(annotations[i])

C6_MalformedDetectedBeforeMutation ==
    Malformed =>
        /\ pc = "done" => result.status = "raised"
        /\ \A k \in 1..Len(trace) :
               trace[k].ev \in {"group_raise", "call_raise"} =>
                   \A j \in 1..(k - 1) : trace[j].ev # "call"

(* C7.  As claimed: when opening the document fails, fill is fatal at      *)
(* Start; the compositor enters neither pass and the document is not       *)
(* opened a second time.                                                   *)

C7_OpenFailureFatalAtStart ==
    Happened("hybrid", "open_raise") =>
        /\ pass # "fitz"
        /\ ~Happened("fitz", "open")
        /\ ~Happened("fitz", "open_raise")

(* C7, amended.  When opening the document fails in the primary pass,      *)
(* that pass groups and renders nothing; the compositor enters the         *)
(* fallback pass, which opens the document a second time.  When that open  *)
(* fails too, fill fails with the render error, no annotation was grouped  *)
(* or rendered, and nothing is written.                                    *)

C7_OpenFailure ==
    Happened("hybrid", "open_raise") =>
        /\ trace[1] = Ev("hybrid", "open_raise", 0)
        /\ \A k \in 2..Len(trace) : trace[k].pass = "fitz"
        /\ \A h \in 1..Len(docs) : docs[h].pass = "fitz"
        /\ pass = "fitz"
        /\ pc = "done" =>
               Len(trace) >= 2 /\ trace[2].ev \in {"open", "open_raise"}
        /\ Happened("fitz", "open_raise") =>
               /\ Len(trace) = 2
               /\ docs = <<>>
               /\ annotations_by_page = <<>>
               /\ pc = "done"
               /\ result = Failed
               /\ output_file = NoFile

C7_Witness ==
    /\ Happened("hybrid", "open_raise")
    /\ Happened("fitz", "open_raise")
    /\ annotations # <<>>

(* C8.  A signature, image, image-watermark or signed-stamp signature      *)
(* payload that does not decode drops only that mark: the renderer does    *)
(* not raise for it and leaves no image, and the other annotations are     *)
(* rendered as without it.                                                 *)

PayloadOf(ann) ==
    LET ann_type == Get(ann, "type", "text")
    IN  IF ann_type \in {"signature", "image"} THEN Get(ann, "data", <<>>)
        ELSE IF ann_type \in {"signed_stamp", "signedStamp"}
            THEN Get(ann, "signatureData", <<>>)
        ELSE IF ann_type = "watermark" /\ Get(ann, "contentType", "text") = "image"
            THEN Get(ann, "content", <<>>)
        ELSE <<>>

UndecodablePayload(ann) ==
    /\ IsObject(ann)
    /\ PayloadOf(ann) # <<>>
    /\ ~Decodes(Base64Part(PayloadOf(ann)))

\* nothing but the payload is wrong with the annotation
OtherwiseWellFormed(ann) ==
    /\ BoxIsNumeric(ann)
    /\ "color" \in DOMAIN ann => IsStr(ann.color)
    /\ "borderColor" \in DOMAIN ann => IsStr(ann.borderColor)

IsImageMark(m) == m.mark.kind \in {"image", "watermark_image"}

C8_DecodeFailureDropsOnlyThatMark ==
    /\ \A k \in 1..Len(trace) :
           trace[k].ev = "call_raise" =>
               ~(/\ UndecodablePayload(pass_annotations[trace[k].i])
                 /\ OtherwiseWellFormed(pass_annotations[trace[k].i]))
    /\ \A h \in 1..Len(docs) : \A k \in 1..Len(docs[h].marks) :
           IsImageMark(docs[h].marks[k]) =>
               ~UndecodablePayload(pass_annotations[docs[h].marks[k].i])
    /\ result.status = "ok" =>
           /\ {CallsOf(docs[result.from].pass)[k] :
                   k \in 1..Len(CallsOf(docs[result.from].pass))} =
                  {i \in 1..Len(pass_annotations) :
                       InRangePage(pass_annotations[i], pdf_pages)}
           /\ SelectSeq(result.marks,
                  LAMBDA m : ~UndecodablePayload(pass_annotations[m.i])) =
                  MarksOf(pass_annotations,
                      SelectSeq(CallsOf(docs[result.from].pass),
                          LAMBDA i : ~UndecodablePayload(pass_annotations[i])))

C8_Witness ==
    /\ pc = "done"
    /\ result.status = "ok"
    /\ Len(pass_annotations) = 2
    /\ UndecodablePayload(pass_annotations[1])
    /\ Get(pass_annotations[1], "type", "text") = "signature"
    /\ CallsOf(docs[result.from].pass) = <<1, 2>>
    /\ Len(result.marks) = 1
    /\ result.marks[1].i = 2

(* C9.  Colour parsing never raises, whatever the colour field holds       *)
(* (missing, null, no string, wrong length, no hex digits): the renderer   *)
(* does not raise for an annotation with nothing but its colour wrong.     *)

C9_ColourParsingNeverRaises ==
    \A k \in 1..Len(trace) :
        trace[k].ev = "call_raise" =>
            LET ann == pass_annotations[trace[k].i]
            IN  ~(/\ "color" \in DOMAIN ann
                  /\ BoxIsNumeric(ann)
                  /\ IsNum(Get(ann, "fontSize", Num(12))))

(* C10.  Normalizing with scale 1.0 returns the annotations unchanged,     *)
(* every field of every annotation, path and point.                        *)

C10_IdentityAtScaleOne ==
    pc = "done" /\ canvas_scale = Num(1) =>
        /\ result.status = "ok"
        /\ normalized_annotations = annotations

C10_Witness ==
    /\ pc = "done"
    /\ canvas_scale = Num(1)
    /\ Len(annotations) = 2
    /\ annotations[1] = DrawingAnn
    /\ annotations[2] = TextBadX
    /\ normalized_annotations = annotations

(* C11.  Linearity: with a scale s > 0 other than 1, every length field   *)
(* present in an annotation (x, y, width, height, fontSize, strokeWidth,  *)
(* x1, y1, x2, y2, and the x and y of every point of every path) is the   *)
(* input value divided by s; scale 2 maps x=100, y=100, width=200,        *)
(* height=40, fontSize=24 to 50, 50, 100, 20, 12.                         *)

Mul(a, b) == Frac(a.n * b.n, a.d * b.d)

\* out is in / s
IsQuotient(out, in, s) == IsNum(out) /\ Mul(out, s) = in

NormalizedWith(s) ==
    /\ pc = "done"
    /\ result.status = "ok"
    /\ canvas_scale = s

C11_Linearity ==
    \A s \in NormScaleValues \ {Num(1)} :
        NormalizedWith(s) /\ Less(Num(0), s) =>
            \A i \in 1..Len(annotations) :
                LET in == annotations[i]
                    out == normalized_annotations[i]
                IN  /\ \A k \in LengthKeys \cap DOMAIN in :
                           IsQuotient(out[k], in[k], s)
                    /\ "paths" \in DOMAIN in =>
                           \A p \in 1..Len(in.paths) :
                               "points" \in DOMAIN in.paths[p] =>
                                   \A q \in 1..Len(in.paths[p].points) :
                                       LET pin == in.paths[p].points[q]
                                           pout == out.paths[p].points[q]
                                       IN  /\ IsQuotient(pout.x, pin.x, s)
                                           /\ IsQuotient(pout.y, pin.y, s)
                    /\ in = ExampleText /\ s = Num(2) =>
                           /\ out.x = Num(50)
                           /\ out.y = Num(50)
                           /\ out.width = Num(100)
                           /\ out.height = Num(20)
                           /\ out.fontSize = Num(12)

C11_Witness ==
    /\ NormalizedWith(Num(2))
    /\ annotations = <<ExampleText, DrawingAnn>>
    /\ normalized_annotations[1].fontSize = Num(12)
    /\ normalized_annotations[2].paths[1].points[2].y = Num(4)

(* C12.  Normalization leaves every field that is no length as it was     *)
(* (type, page, text, colours, payloads, flags, rotation, opacity, the     *)
(* other keys of a path) and keeps the number and order of annotations,    *)
(* paths and points.                                                       *)

C13_NormalizerNeverRaises ==
    pc = "done" => result.status = "ok"

(* C14.  Whatever canvas_scale a fill request carries (absent, empty,      *)
(* unparseable, zero, negative), the scale the normalizer is invoked with  *)
(* is a number above zero.                                                 *)

C14_ScaleIsPositive ==
    pc = "fill" => IsNum(canvas_scale) /\ Less(Num(0), canvas_scale)

(* C15.  On every successful fill the returned page count is the input     *)
(* document's and no handle's pages were added to or removed; with zero    *)
(* annotations no renderer is invoked and the fill succeeds unless a       *)
(* library call (open, page load, save) fails in both passes.              *)

LibraryRaiseEvents == {"open_raise", "load_raise", "save_raise"}

C15_PageCountPreserved ==
    /\ \A h \in 1..Len(docs) : docs[h].pages = pdf_pages
    /\ result.status = "ok" =>
           /\ result.total_pages = pdf_pages
           /\ docs[result.from].pages = pdf_pages
    /\ body_kind = "list" /\ annotations = <<>> =>
           /\ \A k \in 1..Len(trace) :
                  /\ trace[k].ev \notin {"call", "call_raise"}
                  /\ trace[k].ev \in RaiseEvents =>
                         trace[k].ev \in LibraryRaiseEvents
           /\ pc = "done" =>
                  \/ result.status = "ok" /\ result.marks = <<>>
                  \/ PassRaised("hybrid") /\ PassRaised("fitz")

C15_Witness ==
    /\ pc = "done"
    /\ annotations = <<>>
    /\ body_kind = "list"
    /\ pdf_pages = 2
    /\ result.status = "ok"
    /\ result.total_pages = 2
    /\ output_file.written

-----------------------------------------------------------------------------
(* The endpoints as coroutines of one event loop.  An "async def" endpoint *)
(* runs on the event-loop thread from one await that suspends to the next; *)
(* PDFFillerService.fill_pdf and render_page_to_image are "async def"      *)
(* without such an await, and nothing is submitted to _executor, so a call *)
(* keeps the loop from its first statement to its return or raise.  The    *)
(* library calls succeed here; the renderer raises as the annotation       *)
(* makes it.                                                               *)

RequestIds == {1, 2}

Idx(anns) == [i \in 1..Len(anns) |-> i]

\* the positions the primary pass renders, page by page
RECURSIVE IdxByPage(_, _, _)
IdxByPage(anns, p, total_pages) ==
    IF p > total_pages THEN <<>>
    ELSE SelectSeq(Idx(anns), LAMBDA i : PageOf(anns[i]) = Num(p))
             \o IdxByPage(anns, p + 1, total_pages)

\* the positions the fallback pass renders: dict order, in-range keys only
RECURSIVE IdxByFirstAppearance(_, _)
IdxByFirstAppearance(anns, idx) ==
    IF idx = <<>> THEN <<>>
    ELSE LET key == PageOf(anns[Head(idx)])
         IN  SelectSeq(idx, LAMBDA i : PageOf(anns[i]) = key)
                 \o IdxByFirstAppearance(anns,
                        SelectSeq(idx, LAMBDA i : PageOf(anns[i]) # key))

FitzOrder(anns, total_pages) ==
    SelectSeq(IdxByFirstAppearance(anns, Idx(anns)),
              LAMBDA i : InRangePage(anns[i], total_pages))

\* the request's record after one of its fields changed
Req(r) == requests[r]

OnLoop(r) == loop = r

\* the call of the service method is in progress
InCall(r) == Req(r).pc \in {"open", "draw", "check", "pixmap"}

LoopFrame ==
    UNCHANGED <<pdf_pages, body_kind, annotations, canvas_scale, pc,
                normalized_annotations, pass, pass_annotations, docs,
                annotations_by_page, page_idx, ann_pos, trace, result,
                output_file, page_number, zoom, form_canvas_scale>>

\* the endpoint from its first statement to its first suspending await:
\* fill_pdf awaits check_and_record_usage; render_page goes straight into
\* render_page_to_image
Receive(r) ==
    /\ loop = 0
    /\ Req(r).pc = "received"
    /\ IF Req(r).kind = "fill"
          THEN /\ requests' = [requests EXCEPT ![r].pc = "usage"]
               /\ UNCHANGED loop
          ELSE /\ requests' = [requests EXCEPT ![r].pc = "open"]
               /\ loop' = r
    /\ UNCHANGED handles
    /\ LoopFrame

\* check_and_record_usage returned: the endpoint calls fill_pdf, which
\* calls _fill_pdf_hybrid
Resume(r) ==
    /\ loop = 0
    /\ Req(r).pc = "usage"
    /\ requests' = [requests EXCEPT ![r].pc = "open", ![r].pass = "hybrid"]
    /\ loop' = r
    /\ UNCHANGED handles
    /\ LoopFrame

NewHandle(r) ==
    [owner |-> r, pages |-> Req(r).pdf_pages, open |-> TRUE, marks |-> <<>>]

\* a service with a process-wide cache of open documents
OpenCached(r) ==
    /\ OnLoop(r)
    /\ Req(r).pc = "open"
    /\ LET cached == {h \in 1..Len(handles) :
                         handles[h].open /\ handles[h].pages = Req(r).pdf_pages}
           h == IF cached = {} THEN Len(handles) + 1
                ELSE CHOOSE c \in cached : TRUE
           total_pages == Req(r).pdf_pages
           anns == Req(r).annotations
       IN  /\ handles' = IF cached = {} THEN Append(handles, NewHandle(r))
                         ELSE handles
           /\ requests' = [requests EXCEPT
                  ![r].doc = h,
                  ![r].pc = IF Req(r).kind = "fill" THEN "draw" ELSE "check",
                  ![r].todo = IF Req(r).kind = "render" THEN <<>>
                              ELSE IF Req(r).pass = "hybrid"
                                  THEN IdxByPage(anns, 1, total_pages)
                              ELSE FitzOrder(anns, total_pages)]
    /\ UNCHANGED loop
    /\ LoopFrame

\* doc = fitz.open(stream=pdf_bytes, filetype="pdf") and the grouping of
\* the pass
Open(r) ==
    /\ OnLoop(r)
    /\ Req(r).pc = "open"
    /\ LET total_pages == Req(r).pdf_pages
           anns == Req(r).annotations
       IN  /\ handles' = Append(handles, NewHandle(r))
           /\ requests' = [requests EXCEPT
                  ![r].doc = Len(handles) + 1,
                  ![r].pc = IF Req(r).kind = "fill" THEN "draw" ELSE "check",
                  ![r].todo = IF Req(r).kind = "render" THEN <<>>
                              ELSE IF Req(r).pass = "hybrid"
                                  THEN IdxByPage(anns, 1, total_pages)
                              ELSE FitzOrder(anns, total_pages)]
    /\ UNCHANGED loop
    /\ LoopFrame

\* one call of _draw_annotation_fitz; when it raises in the primary pass
\* fill_pdf goes on with the fallback pass, when it raises there fill_pdf
\* raises FileProcessingError
Draw(r) ==
    /\ OnLoop(r)
    /\ Req(r).pc = "draw"
    /\ Req(r).todo # <<>>
    /\ LET i == Head(Req(r).todo)
           d == DrawAnnotationFitz(Req(r).annotations[i])
       IN  IF ~d.raised
              THEN /\ handles' = [handles EXCEPT ![Req(r).doc].marks =
                          @ \o [k \in 1..Len(d.marks) |->
                                   [by |-> r, i |-> i, mark |-> d.marks[k]]]]
                   /\ requests' = [requests EXCEPT ![r].todo = Tail(@)]
                   /\ UNCHANGED loop
           ELSE IF Req(r).pass = "hybrid"
              THEN /\ requests' = [requests EXCEPT ![r].pass = "fitz",
                                                   ![r].pc = "open"]
                   /\ UNCHANGED <<handles, loop>>
           ELSE /\ requests' = [requests EXCEPT ![r].pc = "done",
                                                ![r].result = Failed]
                /\ loop' = 0
                /\ UNCHANGED handles
    /\ LoopFrame

\* doc.save, doc.close, return; the endpoint writes the file and awaits
\* complete_usage
Save(r) ==
    /\ OnLoop(r)
    /\ Req(r).pc = "draw"
    /\ Req(r).todo = <<>>
    /\ handles' = [handles EXCEPT ![Req(r).doc].open = FALSE]
    /\ requests' = [requests EXCEPT
           ![r].pc = "complete",
           ![r].result = [status |-> "ok",
                          marks |-> handles[Req(r).doc].marks,
                          total_pages |-> handles[Req(r).doc].pages]]
    /\ loop' = 0
    /\ LoopFrame

\* complete_usage returned: the endpoint returns its response
Complete(r) ==
    /\ loop = 0
    /\ Req(r).pc = "complete"
    /\ requests' = [requests EXCEPT ![r].pc = "done"]
    /\ UNCHANGED <<handles, loop>>
    /\ LoopFrame

RenderFailed == [status |-> "raised", error |-> "FileProcessingError",
                 message |-> "Failed to render PDF page"]

\* the page check of render_page_to_image
Check(r) ==
    /\ OnLoop(r)
    /\ Req(r).pc = "check"
    /\ IF Req(r).page_number < 1
             \/ Req(r).page_number > handles[Req(r).doc].pages
          THEN /\ requests' = [requests EXCEPT ![r].pc = "done",
                                               ![r].result = RenderFailed]
               /\ loop' = 0
          ELSE /\ requests' = [requests EXCEPT ![r].pc = "pixmap"]
               /\ UNCHANGED loop
    /\ UNCHANGED handles
    /\ LoopFrame

\* get_pixmap, tobytes, doc.close, return; the endpoint returns its response
Pixmap(r) ==
    /\ OnLoop(r)
    /\ Req(r).pc = "pixmap"
    /\ handles' = [handles EXCEPT ![Req(r).doc].open = FALSE]
    /\ requests' = [requests EXCEPT
           ![r].pc = "done",
           ![r].result = [status |-> "ok", page |-> Req(r).page_number,
                          marks |-> handles[Req(r).doc].marks]]
    /\ loop' = 0
    /\ LoopFrame

LoopPool == {TextAt(Num(1)), TextAt(Num(2)), TextNullColor}

NewRequests ==
    {[kind |-> "fill", pdf_pages |-> n, annotations |-> a, page_number |-> 0,
      pc |-> "received", pass |-> "none", todo |-> <<>>, doc |-> 0,
      result |-> NoResult] :
         n \in 1..MaxPages, a \in Lists(LoopPool, MaxAnns)}
    \cup
    {[kind |-> "render", pdf_pages |-> n, annotations |-> <<>>,
      page_number |-> p, pc |-> "received", pass |-> "none", todo |-> <<>>,
      doc |-> 0, result |-> NoResult] :
         n \in 1..MaxPages, p \in 0..(MaxPages + 1)}

InitLoop ==
    /\ requests \in [RequestIds -> NewRequests]
    /\ handles = <<>>
    /\ loop = 0
    /\ pdf_pages = 1
    /\ body_kind = "list"
    /\ annotations = <<>>
    /\ canvas_scale = Num(1)
    /\ pc = "loop"
    /\ normalized_annotations = <<>>
    /\ pass = "none"
    /\ pass_annotations = <<>>
    /\ docs = <<>>
    /\ annotations_by_page = <<>>
    /\ page_idx = 0
    /\ ann_pos = 0
    /\ trace = <<>>
    /\ result = NoResult
    /\ output_file = NoFile
    /\ page_number = 0
    /\ zoom = Num(1)
    /\ form_canvas_scale = Null

NextLoop ==
    \E r \in RequestIds :
        \/ Receive(r)
        \/ Resume(r)
        \/ Open(r)
        \/ Draw(r)
        \/ Save(r)
        \/ Complete(r)
        \/ Check(r)
        \/ Pixmap(r)

SpecLoop == InitLoop /\ [][NextLoop]_vars

(* C16.  Each render and fill call is dispatched onto the worker pool:     *)
(* while a request's call is in progress the event loop is not held by     *)
(* it, so another request can start and complete its own call.             *)

C16_CallsLeaveTheLoopFree ==
    \A r \in RequestIds : InCall(r) => ~OnLoop(r)

(* C17.  Concurrent calls share no mutable state: under every              *)
(* interleaving of two fill or render requests each call opens its own     *)
(* handle, no handle is used by more than one call, and each call's        *)
(* result is the one it produces when run alone.                           *)

\* marks of a list of annotations, in order
RECURSIVE MarksAlone(_)
MarksAlone(anns) ==
    IF anns = <<>> THEN <<>>
    ELSE DrawAnnotationFitz(Head(anns)).marks \o MarksAlone(Tail(anns))

\* what the request returns or raises when it is the only one served
Alone(q) ==
    IF q.kind = "render"
        THEN IF q.page_number < 1 \/ q.page_number > q.pdf_pages
                 THEN RenderFailed
                 ELSE [status |-> "ok", page |-> q.page_number]
    ELSE LET rendered == ByPage(q.annotations, 1, q.pdf_pages)
         IN  IF \E k \in 1..Len(rendered) : DrawAnnotationFitz(rendered[k]).raised
                 THEN Failed
                 ELSE [status |-> "ok", marks |-> MarksAlone(rendered),
                       total_pages |-> q.pdf_pages]

\* the result without who drew which mark
Plain(res) ==
    IF res.status # "ok" THEN res
    ELSE IF "page" \in DOMAIN res
        THEN [status |-> "ok", page |-> res.page]
    ELSE [status |-> "ok", total_pages |-> res.total_pages,
          marks |-> [k \in 1..Len(res.marks) |-> res.marks[k].mark]]

C17_NoSharedState ==
    /\ \A r \in RequestIds :
           Req(r).doc # 0 =>
               /\ Req(r).doc \in 1..Len(handles)
               /\ handles[Req(r).doc].owner = r
    /\ \A h \in 1..Len(handles) : \A k \in 1..Len(handles[h].marks) :
           handles[h].marks[k].by = handles[h].owner
    /\ \A r \in RequestIds :
           Req(r).pc = "done" =>
               /\ Plain(Req(r).result) = Alone(Req(r))
               /\ Req(r).result.status = "ok" =>
                      \A k \in 1..Len(Req(r).result.marks) :
                          Req(r).result.marks[k].by = r

C17_Witness ==
    /\ Req(1).kind = "fill" /\ Req(2).kind = "fill"
    /\ Req(1).pc = "complete"
    /\ Req(1).result.status = "ok"
    /\ Len(Req(1).result.marks) = 2
    /\ Req(2).pc = "draw"
    /\ OnLoop(2)
    /\ Req(2).doc = 2
    /\ Len(handles[2].marks) = 1
    /\ ~handles[1].open

(* C19.  Every exit path of fill closes every handle the request opened:   *)
(* after fill returned or raised (primary success, fallback success, both  *)
(* passes failing) no handle of either pass is open.                       *)

C19_FillClosesEveryHandle ==
    pc = "done" => \A h \in 1..Len(docs) : ~docs[h].open

(* C20.  Every exit path of render_page_to_image closes the handle it      *)
(* opened, the invalid-page failure and a failure while rasterizing or     *)
(* encoding included.                                                      *)

C20_RenderClosesItsHandle ==
    \A h \in 1..Len(docs) :
        docs[h].pass = "render" /\ pc = "done" => ~docs[h].open

-----------------------------------------------------------------------------
(* The renderer behind each pass *)

\* the method each pass calls per annotation: _fill_pdf_hybrid calls
\* self._draw_annotation_fitz(page, ann, page_rect.height) and
\* _fill_pdf_with_fitz calls self._draw_annotation_fitz(page, ann,
\* page_height); _fill_pdf_with_pypdf and its _draw_annotation are called
\* by neither
RendererOf(p) ==
    CASE p = "hybrid" -> "_draw_annotation_fitz"
      [] p = "fitz" -> "_draw_annotation_fitz"

\* the positions on which the renderer raised in pass p
RaisedCallsOf(p) ==
    {trace[k].i : k \in {j \in 1..Len(trace) :
                           trace[j].pass = p /\ trace[j].ev = "call_raise"}}

(* C21.  The fallback renders against a second backend: once the fallback  *)
(* has invoked its renderer, the renderer it invoked is another            *)
(* implementation than the one the primary invokes.                        *)

C21_FallbackUsesSecondBackend ==
    Happened("fitz", "call") \/ Happened("fitz", "call_raise")
    => RendererOf("fitz") # RendererOf("hybrid")

\* what the code does instead: the fallback never completes a renderer
\* call on an annotation the primary's renderer raised on
C21_RendererFailureRecurs ==
    \A i \in RaisedCallsOf("hybrid") :
        \A k \in 1..Len(trace) :
            trace[k].pass = "fitz" /\ trace[k].i = i
            => trace[k].ev # "call"

\* how many events of the kinds evs pass p produced
Count(p, evs) ==
    Cardinality({k \in 1..Len(trace) :
                    trace[k].pass = p /\ trace[k].ev \in evs})

\* the positions in the trace of the completed renderer calls of pass p on
\* the annotation at position i
CallsOn(p, i) ==
    {k \in 1..Len(trace) :
        trace[k].pass = p /\ trace[k].ev = "call" /\ trace[k].i = i}

\* the handles that were serialized
SavedHandles == {h \in 1..Len(docs) : docs[h].saved}

(* C22.  Each pass of a fill request opens the document at most once, the  *)
(* fallback on a handle of its own; at most one handle is serialized per   *)
(* request, and exactly one when fill succeeds: the handle of the pass     *)
(* that returned.  On that handle the pass made, before serializing,       *)
(* exactly one renderer call for every annotation addressed to a page of   *)
(* the document and none for any other annotation.                         *)

C22_OneSerializedHandle ==
    /\ \A p \in {"hybrid", "fitz"} : Count(p, {"open", "open_raise"}) <= 1
    /\ Len(docs) = Count("hybrid", {"open"}) + Count("fitz", {"open"})
    /\ Cardinality(SavedHandles) <= 1
    /\ Count("hybrid", {"save"}) + Count("fitz", {"save"})
           = Cardinality(SavedHandles)
    /\ result.status = "ok" => SavedHandles = {result.from}
    /\ \A h \in SavedHandles :
           LET p == docs[h].pass
           IN  /\ result.status = "ok"
               /\ \A i \in 1..Len(pass_annotations) :
                      /\ Cardinality(CallsOn(p, i)) =
                             IF InRangePage(pass_annotations[i], docs[h].pages)
                                 THEN 1 ELSE 0
                      /\ \A k \in CallsOn(p, i) :
                             \A s \in 1..Len(trace) :
                                 trace[s].pass = p /\ trace[s].ev = "save"
                                 => k < s
               /\ Len(docs[h].marks) =
                      Len(MarksOf(pass_annotations, CallsOf(p)))

\* the fallback serialized a second handle after the primary had rendered
\* on the first
C22_Witness ==
    /\ pc = "done"
    /\ result.status = "ok"
    /\ Len(docs) = 2
    /\ result.from = 2
    /\ Len(docs[1].marks) >= 1
    /\ Len(CallsOf("fitz")) = 2

\* the claim as stated: a fill request that entered a pass opened the
\* document exactly once
C22_OpenedExactlyOnce ==
    pc = "done" /\ pass # "none"
    => Count("hybrid", {"open", "open_raise"})
           + Count("fitz", {"open", "open_raise"}) = 1

-----------------------------------------------------------------------------
(* Lists that interleave pages, with page fields of several JSON types *)

OrderLen == 3

\* "page": 1, 2, "2" and 1.5
PagesPool ==
    {TextAt(Num(1)), TextAt(Num(2)), TextAt(Str(<<"2">>)),
     TextAt(Frac(3, 2))}

InitPages ==
    /\ pdf_pages \in 1..MaxPages
    /\ body_kind = "list"
    /\ annotations \in [1..OrderLen -> PagesPool]
    /\ canvas_scale = Num(1)
    /\ pc = "parse"
    /\ normalized_annotations = <<>>
    /\ pass = "none"
    /\ pass_annotations = <<>>
    /\ docs = <<>>
    /\ annotations_by_page = <<>>
    /\ page_idx = 0
    /\ ann_pos = 0
    /\ trace = <<>>
    /\ result = NoResult
    /\ output_file = NoFile
    /\ page_number = 0
    /\ zoom = Num(1)
    /\ form_canvas_scale = FormOf(canvas_scale)
    /\ NoLoop

SpecPages == InitPages /\ [][Next]_vars

\* the renderer calls pass p began, completed or not, as positions in its
\* list, in call order
AttemptsOf(p) ==
    LET calls == SelectSeq(trace, LAMBDA e :
                     e.pass = p /\ e.ev \in {"call", "call_raise"})
    IN  [k \in 1..Len(calls) |-> calls[k].i]

\* calls is in list order within each page, page by page
InListOrderByPage(anns, calls) ==
    /\ \A a, b \in 1..Len(calls) :
           a < b /\ PageOf(anns[calls[a]]) = PageOf(anns[calls[b]])
           => calls[a] < calls[b]
    /\ \A a, b, c \in 1..Len(calls) :
           a < b /\ b < c /\ PageOf(anns[calls[a]]) = PageOf(anns[calls[c]])
           => PageOf(anns[calls[b]]) = PageOf(anns[calls[a]])
    /\ \A b \in 1..Len(calls) :
           \A i \in 1..(calls[b] - 1) :
               PageOf(anns[i]) = PageOf(anns[calls[b]])
               => \E a \in 1..(b - 1) : calls[a] = i

(* C23.  In the primary and in the fallback pass, of two annotations       *)
(* addressed to the same page the one listed earlier in the input is       *)
(* handed to the renderer first, none of a page is passed over for a later *)
(* one of that page, and the annotations of one page are rendered one      *)
(* after the other before any annotation of another page.                  *)

C23_InputOrderWithinPage ==
    \A p \in {"hybrid", "fitz"} :
        InListOrderByPage(pass_annotations, AttemptsOf(p))

\* pages 2, 1, 2: the primary rendered page 1 first and the fallback page 2
\* first, each keeping the two annotations of page 2 together and in order
C23_Witness ==
    /\ pc = "done"
    /\ result.status = "ok"
    /\ PageOf(annotations[1]) = Num(2)
    /\ PageOf(annotations[2]) = Num(1)
    /\ PageOf(annotations[3]) = Num(2)
    /\ CallsOf("hybrid") = <<2, 1, 3>>
    /\ CallsOf("fitz") = <<1, 3, 2>>

\* pass p went through its page loop to the end
LoopCompleted(p) == Happened(p, "save") \/ Happened(p, "save_raise")

\* the positions pass p rendered that are addressed to page v, in call
\* order
CallsOfPage(p, v) ==
    SelectSeq(CallsOf(p), LAMBDA i : PageOf(pass_annotations[i]) = v)

(* C24.  The two passes are equivalent on their input, whatever JSON value *)
(* a page field holds: the fallback raises in grouping or page selection   *)
(* only if the primary did, and when both went through their page loop     *)
(* they rendered the same annotations, page by page in the same order, and *)
(* skipped the same ones.                                                  *)

C24_PassesEquivalent ==
    /\ Happened("fitz", "group_raise") \/ Happened("fitz", "select_raise")
       => Happened("hybrid", "group_raise")
              \/ Happened("hybrid", "select_raise")
    /\ LoopCompleted("hybrid") /\ LoopCompleted("fitz")
       => \A i \in 1..Len(pass_annotations) :
              CallsOfPage("hybrid", PageOf(pass_annotations[i]))
                  = CallsOfPage("fitz", PageOf(pass_annotations[i]))

\* the part of the equivalence the code does keep: two passes that both
\* went through their page loop rendered the same annotations in the same
\* per-page order
C24_SameCallsWhenBothComplete ==
    LoopCompleted("hybrid") /\ LoopCompleted("fitz")
    => \A i \in 1..Len(pass_annotations) :
           CallsOfPage("hybrid", PageOf(pass_annotations[i]))
               = CallsOfPage("fitz", PageOf(pass_annotations[i]))

-----------------------------------------------------------------------------
(* The geometry of stamps, signed stamps and watermarks *)

Neg(a) == Frac(0 - a.n, a.d)

Sub(a, b) == Add(a, Neg(b))

MinNum(a, b) == IF Less(a, b) THEN a ELSE b

\* math.cos(math.radians(rotation)) and math.sin(math.radians(rotation))
\* for the multiples of 90 degrees (up to the rounding of the floats)
CosDeg(rotation) ==
    CASE rotation = Num(0) -> Num(1)
      [] rotation = Num(90) -> Num(0)
      [] rotation = Num(180) -> Num(0 - 1)
      [] rotation = Num(0 - 90) -> Num(0)

SinDeg(rotation) ==
    CASE rotation = Num(0) -> Num(0)
      [] rotation = Num(90) -> Num(1)
      [] rotation = Num(180) -> Num(0)
      [] rotation = Num(0 - 90) -> Num(0 - 1)

\* center_x = x + width / 2, center_y = y + height / 2
CenterOf(b) ==
    <<Add(b.x, Div(b.width, Num(2))), Add(b.y, Div(b.height, Num(2)))>>

\* rx = cx * cos_a - cy * sin_a + center_x
\* ry = cx * sin_a + cy * cos_a + center_y
RotateCorner(c, cos_a, sin_a, center) ==
    <<Add(Sub(Mul(c[1], cos_a), Mul(c[2], sin_a)), center[1]),
      Add(Add(Mul(c[1], sin_a), Mul(c[2], cos_a)), center[2])>>

\* the four corners about the centre, rotated: the points of the polyline
RotatedCorners(b, cos_a, sin_a, center) ==
    LET half_w == Div(b.width, Num(2))
        half_h == Div(b.height, Num(2))
        corners == <<<<Neg(half_w), Neg(half_h)>>, <<half_w, Neg(half_h)>>,
                     <<half_w, half_h>>, <<Neg(half_w), half_h>>>>
    IN  [k \in 1..4 |-> RotateCorner(corners[k], cos_a, sin_a, center)]

\* text written without a morph argument
NoMorph == [fixpoint |-> <<>>, matrix |-> <<>>]

\* morph=(fitz.Point(center_x, center_y),
\*        fitz.Matrix(cos_a, -sin_a, sin_a, cos_a, 0, 0))
Morph(center, cos_a, sin_a) ==
    [fixpoint |-> center, matrix |-> <<cos_a, Neg(sin_a), sin_a, cos_a>>]

\* the label of a box: TextWriter.write_text with the morph, or, when the
\* TextWriter raised, page.insert_text at the centre without one
MorphedText(center, cos_a, sin_a, text_writer_ok) ==
    IF text_writer_ok
        THEN [kind |-> "text", by |-> "write_text",
              morph |-> Morph(center, cos_a, sin_a)]
        ELSE [kind |-> "text", by |-> "insert_text", morph |-> NoMorph]

\* the stamp branch: border and label
StampGeometry(ann, text_writer_ok) ==
    LET b == BoxOf(ann)
        rotation == Get(ann, "rotation", Num(0))
        center == CenterOf(b)
        cos_a == CosDeg(rotation)
        sin_a == SinDeg(rotation)
    IN  IF Get(ann, "shape", "box") = "circle"
            THEN <<[kind |-> "circle", center |-> center,
                    radius |-> Div(MinNum(b.width, b.height), Num(2))],
                   [kind |-> "text",
                    by |-> IF text_writer_ok THEN "write_text"
                           ELSE "insert_text",
                    morph |-> NoMorph]>>
            ELSE <<[kind |-> "polyline",
                    points |-> RotatedCorners(b, cos_a, sin_a, center)],
                   MorphedText(center, cos_a, sin_a, text_writer_ok)>>

\* the watermark branch: the border is drawn inside the text branch only;
\* an image is inserted into Rect(x, y, x + width, y + height) as it is
WatermarkGeometry(ann, text_writer_ok) ==
    LET b == BoxOf(ann)
        rotation == Get(ann, "rotation", Num(0 - 45))
        content_type == Get(ann, "contentType", "text")
        content == Get(ann, "content", <<"WATERMARK">>)
        center == CenterOf(b)
    IN  IF content_type = "text"
            THEN LET cos_a == CosDeg(rotation)
                     sin_a == SinDeg(rotation)
                     border ==
                         IF Get(ann, "borderStyle", "none") # "none"
                             THEN <<[kind |-> "polyline",
                                     points |-> RotatedCorners(b, cos_a, sin_a,
                                                               center)]>>
                             ELSE <<>>
                 IN  border \o <<MorphedText(center, cos_a, sin_a,
                                             text_writer_ok)>>
        ELSE IF content_type = "image" /\ content # <<>>
            THEN IF Decodes(Base64Part(content))
                     THEN <<[kind |-> "image",
                             rect |-> <<b.x, b.y, Add(b.x, b.width),
                                        Add(b.y, b.height)>>]>>
                     ELSE <<>>
        ELSE <<>>

\* angle = start_angle + (i * 0.16) and angle = date_start_angle - (i * 0.12)
TitleStep == Frac(4, 25)

DateStep == Frac(3, 25)

\* len(text) * font_size * 0.6, the width the code takes for a text when
\* the font cannot tell: 0.6 of the font size per character
CharWidth(font_size) == Mul(font_size, Frac(3, 5))

\* the curved layout of a circular signed stamp: characters of title and
\* date on the circle of radius text_radius about the centre
CurvedTextGeometry(ann, text_writer_ok) ==
    LET b == BoxOf(ann)
        radius == Div(MinNum(b.width, b.height), Num(2))
        font_size == MinNum(Num(10), Mul(radius, Frac(13, 100)))
        text_radius == Sub(radius, Num(18))
        date_font_size == MinNum(Num(9), Mul(font_size, Frac(9, 10)))
        dated == Get(ann, "dateText", "") # "" \/ Get(ann, "date", "") # ""
        by == IF text_writer_ok THEN "write_text" ELSE "insert_text"
    IN  <<[kind |-> "circle", center |-> CenterOf(b), radius |-> radius],
          [kind |-> "curved", of |-> "title", by |-> by,
           text_radius |-> text_radius, font_size |-> font_size,
           step |-> TitleStep]>>
        \o IF dated
               THEN <<[kind |-> "curved", of |-> "date", by |-> by,
                       text_radius |-> text_radius,
                       font_size |-> date_font_size, step |-> DateStep]>>
               ELSE <<>>

\* what the renderer places for the annotation
Geometry(ann, text_writer_ok) ==
    CASE ann.type = "stamp" -> StampGeometry(ann, text_writer_ok)
      [] ann.type = "watermark" -> WatermarkGeometry(ann, text_writer_ok)
      [] ann.type = "signed_stamp" -> CurvedTextGeometry(ann, text_writer_ok)

Rotations == {Num(0), Num(90), Num(0 - 90), Num(180)}

Sized(type, w, h) ==
    [type |-> type, page |-> Num(1), x |-> Num(10), y |-> Num(20),
     width |-> Num(w), height |-> Num(h)]

StampPool ==
    {Sized("stamp", s[1], s[2]) @@ [shape |-> sh, rotation |-> rot] :
        s \in {<<200, 40>>, <<80, 80>>}, sh \in {"box", "circle"},
        rot \in Rotations}

WatermarkPool ==
    {Sized("watermark", 300, 60)
         @@ [contentType |-> ct, borderStyle |-> bs, rotation |-> rot,
             content |-> IF ct = "text" THEN <<"DRAFT">>
                         ELSE <<"hdr", "png">>] :
        ct \in {"text", "image"}, bs \in {"none", "solid", "dashed"},
        rot \in Rotations}

SignedStampPool ==
    {Sized("signed_stamp", w, w)
         @@ [shape |-> "circle", textLayout |-> "curved", dateText |-> d] :
        w \in {30, 36, 60, 80, 100, 200}, d \in {"", "2024-01-01"}}

GeomPool == StampPool \cup WatermarkPool \cup SignedStampPool

InitGeom ==
    /\ pdf_pages = 1
    /\ body_kind = "list"
    /\ annotations \in {<<a>> : a \in GeomPool}
    /\ canvas_scale = Num(1)
    /\ pc = "geometry"
    /\ normalized_annotations = annotations
    /\ pass = "none"
    /\ pass_annotations = annotations
    /\ docs = <<>>
    /\ annotations_by_page = <<>>
    /\ page_idx = 0
    /\ ann_pos = 0
    /\ trace = <<>>
    /\ result = NoResult
    /\ output_file = NoFile
    /\ page_number = 0
    /\ zoom = Num(1)
    /\ form_canvas_scale = FormOf(canvas_scale)
    /\ NoLoop

\* one renderer call on the annotation; the TextWriter may raise
DrawGeometry ==
    /\ pc = "geometry"
    /\ \E text_writer_ok \in BOOLEAN :
           result' = [status |-> "drawn",
                      marks |-> Geometry(pass_annotations[1], text_writer_ok)]
    /\ pc' = "done"
    /\ UNCHANGED <<pdf_pages, body_kind, annotations, canvas_scale,
                   normalized_annotations, pass, pass_annotations, docs,
                   annotations_by_page, page_idx, ann_pos, trace,
                   output_file, page_number, zoom, form_canvas_scale,
                   requests, handles, loop>>

NextGeom == DrawGeometry

SpecGeom == InitGeom /\ [][NextGeom]_vars

\* the annotation drawn and its marks
Drawn == pass_annotations[1]

MarksOfKind(kinds) == SelectSeq(result.marks, LAMBDA m : m.kind \in kinds)

\* the rotation a text mark was written with: that of its morph, the
\* identity without one
TextRotation(m) ==
    IF m.morph = NoMorph
        THEN [cos |-> Num(1), sin |-> Num(0)]
        ELSE [cos |-> m.morph.matrix[1], sin |-> m.morph.matrix[3]]

\* border and label are one rotation of the box about its centre: the
\* polyline is the box turned about the centre by the rotation of the text,
\* and the text is turned about that centre
SharesOneRotation(border, text, b) ==
    LET rot == TextRotation(text)
    IN  /\ border.points = RotatedCorners(b, rot.cos, rot.sin, CenterOf(b))
        /\ text.morph # NoMorph => text.morph.fixpoint = CenterOf(b)

(* C25.  The border and the label of a stamp, box or circle, at any        *)
(* rotation, are turned by one and the same rotation about the centre of   *)
(* the stamp's box (x + width/2, y + height/2): the border of a box is the *)
(* box turned by the rotation its label is written with, about the same    *)
(* fixpoint; a circle and its label are both left unturned.                *)

C25_StampSharesOneRotation ==
    pc = "done" /\ Drawn.type = "stamp"
    => LET border == result.marks[1]
           text == result.marks[2]
       IN  IF border.kind = "circle"
               THEN border.center = CenterOf(BoxOf(Drawn))
                        /\ text.morph = NoMorph
               ELSE SharesOneRotation(border, text, BoxOf(Drawn))

\* what the code keeps: a label the TextWriter wrote is given the centre
\* and the cosine and sine the corners of the border were turned with
C25_SameArgumentsWhenWritten ==
    pc = "done" /\ Drawn.type = "stamp" /\ result.marks[2].by = "write_text"
    => LET border == result.marks[1]
           text == result.marks[2]
       IN  border.kind = "polyline"
               => SharesOneRotation(border, text, BoxOf(Drawn))

(* C26.  For a watermark whose borderStyle is not "none", with text or     *)
(* with image content, a border rectangle is drawn, and the border is the  *)
(* box turned about its centre by the rotation the content is placed       *)
(* with.                                                                   *)

C26_WatermarkBorderFollowsContent ==
    /\ pc = "done" /\ Drawn.type = "watermark"
    /\ Drawn.borderStyle # "none"
    => LET borders == MarksOfKind({"polyline"})
           texts == MarksOfKind({"text"})
           images == MarksOfKind({"image"})
       IN  /\ Len(borders) = 1
           /\ Len(texts) + Len(images) = 1
           /\ \A k \in 1..Len(texts) :
                  SharesOneRotation(borders[1], texts[k], BoxOf(Drawn))
           /\ \A k \in 1..Len(images) :
                  borders[1].points =
                      RotatedCorners(BoxOf(Drawn), Num(1), Num(0),
                                     CenterOf(BoxOf(Drawn)))

\* what the code does for an image: no border, whatever the border style
C26_ImageWatermarkHasNoBorder ==
    /\ pc = "done" /\ Drawn.type = "watermark"
    /\ Drawn.contentType = "image"
    => /\ MarksOfKind({"polyline"}) = <<>>
       /\ Len(result.marks) = 1
       /\ result.marks[1].rect =
              <<Drawn.x, Drawn.y, Add(Drawn.x, Drawn.width),
                Add(Drawn.y, Drawn.height)>>

(* C27.  In the curved layout of a circular signed stamp, for every box    *)
(* size, the characters of title and date sit at a positive radius         *)
(* strictly inside the border circle, and the arc between two adjacent     *)
(* characters (radius times angular step) is at least one character        *)
(* width, so that no character overlaps its neighbour.                     *)

C27_CurvedTextFits ==
    pc = "done" /\ Drawn.type = "signed_stamp"
    => LET radius == result.marks[1].radius
           curved == MarksOfKind({"curved"})
       IN  \A k \in 1..Len(curved) :
               /\ Less(Num(0), curved[k].text_radius)
               /\ Less(curved[k].text_radius, radius)
               /\ ~Less(Mul(curved[k].text_radius, curved[k].step),
                        CharWidth(curved[k].font_size))

\* what the code does: the step is the same for every size, and only the
\* text radius stays below the border radius
C27_FixedStep ==
    pc = "done" /\ Drawn.type = "signed_stamp"
    => LET radius == result.marks[1].radius
           curved == MarksOfKind({"curved"})
       IN  \A k \in 1..Len(curved) :
               /\ curved[k].step =
                      IF curved[k].of = "title" THEN Frac(4, 25)
                      ELSE Frac(3, 25)
               /\ curved[k].text_radius = Sub(radius, Num(18))

(* C28.  fill never changes what the caller passed in: no step of a fill,  *)
(* at any scale, succeeding or failing, changes the caller's annotation    *)
(* list or any record, path or point in it; the normalized list is built   *)
(* once, before the passes, and no renderer call changes the list a pass   *)
(* draws from, so that no annotation is changed by its own rendering or by *)
(* that of another.                                                        *)

C28_InputNeverMutated ==
    [][/\ annotations' = annotations
       /\ pc \notin {"fill", "normalize"}
              => normalized_annotations' = normalized_annotations
       /\ pass' # "none" => pass_annotations' = normalized_annotations'
       /\ pc = "draw" => pass_annotations' = pass_annotations]_vars

\* a fill at scale 2 that drew from a normalized list differing from the
\* caller's and succeeded
C28_Witness ==
    /\ pc = "done"
    /\ result.status = "ok"
    /\ canvas_scale = Num(2)
    /\ Len(annotations) = 2
    /\ normalized_annotations # annotations
    /\ pass_annotations = normalized_annotations
    /\ Len(result.marks) >= 1

-----------------------------------------------------------------------------
(* Annotations of unknown or missing type, and colours with a sign *)

\* a type no branch of the renderer names; its colour is never read
UnknownType == [type |-> "polygon", page |-> Num(1), color |-> Null]

\* neither "type" nor "page"
Untyped ==
    [x |-> Num(4), y |-> Num(6), fontSize |-> Num(12), color |-> HexRed]

\* "color": "#-f0000"
TextSignedRed ==
    [TextAt(Num(1)) EXCEPT !.color = Str(<<"#", "-", "f", "0", "0", "0", "0">>)]

\* "color": "#0000-1"
HighlightSignedBlue ==
    Box("highlight") @@ [color |-> Str(<<"#", "0", "0", "0", "0", "-", "1">>)]

\* "color": "#+f0000"
HighlightPlusRed ==
    Box("highlight") @@ [color |-> Str(<<"#", "+", "f", "0", "0", "0", "0">>)]

KindsPool ==
    {UnknownType, Untyped, TextAt(Num(2)), TextSignedRed,
     HighlightSignedBlue, HighlightPlusRed}

InitKinds == RequestInit(KindsPool)

SpecKinds == InitKinds /\ [][Next]_vars

\* every mark drawn on any handle, with the position of its annotation
AllMarks ==
    UNION {{docs[h].marks[k] : k \in 1..Len(docs[h].marks)} :
               h \in 1..Len(docs)}

\* the component <<numerator, denominator>> lies in [0, 1]
InUnitInterval(c) == 0 <= c[1] /\ c[1] <= c[2]

(* C29.  Whenever the renderer parsed the colour field without raising,    *)
(* each of the three components it drew with lies in [0, 1], whatever      *)
(* string the colour field holds.                                          *)

C29_ComponentsInUnitInterval ==
    \A m \in AllMarks :
        "rgb" \in DOMAIN m.mark
        => \A k \in 1..3 : InUnitInterval(m.mark.rgb[k])

\* what the code keeps: a colour without a minus sign gives components in
\* [0, 1]
C29_InRangeWithoutMinus ==
    \A m \in AllMarks :
        LET color == Get(pass_annotations[m.i], "color", HexBlack)
        IN  /\ "rgb" \in DOMAIN m.mark
            /\ \A j \in 1..Len(color.s) : color.s[j] # "-"
            => \A k \in 1..3 : InUnitInterval(m.mark.rgb[k])

\* the type tags a branch of the renderer names
KnownTypes ==
    {"text", "signature", "image", "drawing", "checkbox", "highlight",
     "rectangle", "line", "stamp", "signed_stamp", "signedStamp",
     "watermark"}

\* the annotation at position i carries a type no branch names
UnknownAt(i) == Get(pass_annotations[i], "type", "text") \notin KnownTypes

\* the page loaded when the event at position k of the history happened
LoadedPage(k) ==
    LET loads == {j \in 1..(k - 1) : trace[j].ev = "load"}
    IN  trace[CHOOSE j \in loads : \A l \in loads : l <= j].i

(* C30.  An annotation of unknown type is a no-op in fill: the renderer    *)
(* raises nothing for it and draws nothing for it, the other annotations   *)
(* are still rendered (a pass that the library did not fail has called the *)
(* renderer once for every annotation addressed to a page of the document, *)
(* and fill succeeds); an annotation without a type is drawn as text, and  *)
(* one without a page is rendered while page 1 is loaded.                  *)

C30_UnknownTypeIsNoOp ==
    /\ \A k \in 1..Len(trace) :
           /\ trace[k].ev = "call_raise" => ~UnknownAt(trace[k].i)
           /\ trace[k].ev \in {"call", "call_raise"}
                  /\ "page" \notin DOMAIN pass_annotations[trace[k].i]
              => LoadedPage(k) = 1
    /\ \A m \in AllMarks :
           /\ ~UnknownAt(m.i)
           /\ "type" \notin DOMAIN pass_annotations[m.i]
                  => m.mark.kind = "text"
    /\ pc = "done" /\ pass # "none" /\ ~PassRaised(pass)
       => /\ result.status = "ok"
          /\ \A i \in 1..Len(pass_annotations) :
                 InRangePage(pass_annotations[i], pdf_pages)
                 => /\ Cardinality(CallsOn(pass, i)) = 1
                    /\ UnknownAt(i)
                       \/ \E m \in AllMarks : m.i = i

\* an unknown type followed by an annotation with neither type nor page:
\* both were handed to the renderer on page 1 and the one mark of the
\* output is the text of the second
C30_Witness ==
    /\ pc = "done"
    /\ result.status = "ok"
    /\ Len(annotations) = 2
    /\ UnknownAt(1)
    /\ DOMAIN pass_annotations[2] \cap {"type", "page"} = {}
    /\ CallsOf("hybrid") = <<1, 2>>
    /\ Len(result.marks) = 1
    /\ result.marks[1].i = 2
    /\ result.marks[1].mark.kind = "text"

====
